---- MODULE Spec2Model ----
(***************************************************************************)
(* A model of the Fly-Pie menu editor widget (src/src/prefs/MenuEditor.js, *)
(* class FlyPieMenuEditor) as a state machine: one action per public       *)
(* method, signal handler or toolkit callback of the widget.               *)
(*                                                                         *)
(* Conventions                                                             *)
(*  - JavaScript's null, undefined and NaN are the integers null,           *)
(*    undefined and NaN, outside the range of every index, angle and pixel.*)
(*  - Widgets (FlyPieMenuEditorItem) are records in the store item, named  *)
(*    by an id in ItemIds; NoItem is the null reference.                   *)
(*  - List indices are 0-based as in the code; TLA+ sequences are 1-based, *)
(*    so element i of the code is seq[i + 1].                              *)
(*  - Pixel quantities are kept in half pixels (suffix 2 on a name means   *)
(*    "times two") so that (width - columns * size) / 2 stays exact.       *)
(*  - Frame times are microseconds, as gdk_frame_clock_get_frame_time.     *)
(***************************************************************************)
EXTENDS Integers, Sequences, FiniteSets, TLC

\* ------------------------------------------------------------------ bounds

\* Number of widget records that can be alive at the same time.
MaxIds == 7
\* Longest configuration list handed to setItems.
MaxConfigs == 5
\* The frame clock advances in steps of FrameMillis milliseconds ...
FrameMillis == 175
\* ... for at most MaxFrames frames.
MaxFrames == 2
\* Widest allocation, in grid cells beyond the minimum of four.
MaxExtraColumns == 1
\* Number of calls of setItems, add and remove of a run.
MaxCalls == 3
\* Number of layout passes of a run.
MaxPasses == 3

\* ------------------------------------------------------- program constants

null == -1000
NoItem == 0

GRID == 0
CENTER == 1
CHILD == 2

ItemSize == <<130, 120, 100>>

NONE == 0
TRANSITION_A == 1
TRANSITION_B == 2
TRANSITION_C == 3
TRANSITION_D == 4
TRANSITION_E == 5

TRANSITION_DURATION == 350

\* ItemSize[itemState] with the code's 0-based index.
ItemSizeOf(itemState) == ItemSize[itemState + 1]

\* JavaScript's undefined, where the code tells it from null (undefined + 180
\* is NaN, null + 180 is 180).
undefined == -1001
\* JavaScript's NaN, the result of arithmetic on undefined.
NaN == -2000

Nullish(v) == v = null \/ v = undefined

Min(a, b) == IF a < b THEN a ELSE b
Max(a, b) == IF a > b THEN a ELSE b

\* Math.ceil(a / b) for a >= 0, b > 0.
CeilDiv(a, b) == (a + b - 1) \div b

\* ------------------------------------------------------------------ values

ItemIds == 1..MaxIds

\* The fields of a menu configuration this class reads: name, icon, type and
\* the optional fixed angle.
NoConfig == [name |-> "", icon |-> "", type |-> "", angle |-> null]
Config(name, type) == [name |-> name, icon |-> "icon", type |-> type, angle |-> null]

\* An AnimatedValue: start, end, startTime, endTime. def is FALSE while the
\* owner's property is still undefined.
NoAnim == [def |-> FALSE, start |-> 0, end |-> 0, startTime |-> 0, endTime |-> 0]

\* The allocation (half pixels) of a widget that was never allocated.
NoAllocation == [x |-> 0, y |-> 0]

\* A FlyPieMenuEditorItem that does not exist (a free id). allocation is where
\* the last size_allocate() put the widget.
FreeItem ==
  [state |-> GRID, config |-> NoConfig, parent |-> FALSE, reveal_child |-> FALSE,
   sensitive |-> FALSE, opacity |-> 100, active |-> FALSE, x |-> NoAnim, y |-> NoAnim,
   allocation |-> NoAllocation]

\* ------------------------------------------------------------------- state

VARIABLES
  \* the widgets: item[i] is the FlyPieMenuEditorItem with id i
  item,
  \* fields of FlyPieMenuEditor
  items, centerItem, selectedItem, oldItems, lastHideTime, restartAnimation,
  upcomingTransition, transitionAngle, parentAngle, backButton,
  dragIndex, dropIndex, dropRow, dropColumn, lastDropIndex,
  width, height, columnCount, rowCount, gridOffsetX2, gridOffsetY2, updateTimeout,
  \* the toolkit: the frame clock, the registered tick callbacks, the queued
  \* allocation, the drag source that is active and where the drag stands on the
  \* editor's drop target: "none" (not over it), "accept" / "reject" (what the
  \* last motion handler answered), "left" (it left after an accepted motion)
  \* or "done" (it ended over the target, whose 'leave' is still to come)
  frameTime, frameClock, tickCallbacks, allocateQueued, dragSource, dropStatus,
  \* what the last handler did: the signals it emitted, its name, argument,
  \* return value and whether it threw
  emitted, lastOp,
  \* history: the frame time at which setItems superseded item i, the
  \* insertion index the last motion handler resolved and the numbers of
  \* calls of setItems, add and remove and of layout passes so far
  hideTime, motionIndex, calls, passes,
  \* the shortcut selection widget of ConfigWidgetFactory.createShortcutLabel:
  \* the Gtk.ShortcutLabel (accelerator, disabled_text), the row of the list
  \* box (whether it is in the list box, whether it is selected), the closure
  \* variable lastAccelerator, the doFullGrab parameter, whether the system
  \* shortcuts of the surface are inhibited, the arguments onSelect was called
  \* with, the accelerator the label showed when the row was last activated
  \* (history) and what the last handler of the widget was and returned
  label, listBoxRow, lastAccelerator, doFullGrab, shortcutsInhibited, onSelectCalls,
  shownBefore, shortcutOp,
  \* the achievements page of AchievementsPage.js: the widgets of the
  \* achievements in progress (whether the revealer shows its child, the
  \* progress) and of the completed ones (the revealer, the date), both by
  \* achievement id, the order of the revealers in the two boxes, and what the
  \* last handler of the page was and for which id
  activeAchievements, completedAchievements, activeBox, completedBox, achievementOp

editorVars ==
  <<items, centerItem, selectedItem, oldItems, lastHideTime, restartAnimation,
    upcomingTransition, transitionAngle, parentAngle, backButton>>
cursorVars == <<dragIndex, dropIndex, dropRow, dropColumn, lastDropIndex>>
layoutVars ==
  <<width, height, columnCount, rowCount, gridOffsetX2, gridOffsetY2, updateTimeout>>
toolkitVars ==
  <<frameTime, frameClock, tickCallbacks, allocateQueued, dragSource, dropStatus>>
shortcutVars ==
  <<label, listBoxRow, lastAccelerator, doFullGrab, shortcutsInhibited, onSelectCalls,
    shownBefore, shortcutOp>>
achievementVars ==
  <<activeAchievements, completedAchievements, activeBox, completedBox, achievementOp>>
vars ==
  <<item, editorVars, cursorVars, layoutVars, toolkitVars, shortcutVars, achievementVars,
    emitted, lastOp, hideTime, motionIndex, calls, passes>>

\* ----------------------------------------------------------------- helpers

\* Array.prototype.indexOf: the 0-based position of e in seq, or -1.
IndexOf(seq, e) ==
  IF \E i \in 1..Len(seq) : seq[i] = e
  THEN (CHOOSE i \in 1..Len(seq) : seq[i] = e /\ \A j \in 1..(i - 1) : seq[j] # e) - 1
  ELSE -1

InSeq(e, seq) == \E i \in 1..Len(seq) : seq[i] = e

\* The start index Array.prototype.splice uses for a list of length len.
SpliceStart(len, start) ==
  IF start < 0 THEN Max(len + start, 0) ELSE Min(start, len)

\* seq.push(e), whatever the index.
PushLast(seq, where, e) == Append(seq, e)

\* seq.splice(where, 0, e)
SpliceInsert(seq, where, e) ==
  LET s == SpliceStart(Len(seq), where)
  IN  SubSeq(seq, 1, s) \o <<e>> \o SubSeq(seq, s + 1, Len(seq))

\* seq.pop(), whatever the index.
PopLast(seq, which) == SubSeq(seq, 1, Len(seq) - 1)

\* seq.splice(which, 1): the list without the element at which.
SpliceRemove(seq, which) ==
  LET s == SpliceStart(Len(seq), which)
  IN  SubSeq(seq, 1, s) \o SubSeq(seq, s + 2, Len(seq))

\* The k smallest members of S, in increasing order.
RECURSIVE FirstK(_, _)
FirstK(S, k) ==
  IF k = 0 \/ S = {} THEN <<>>
  ELSE LET m == CHOOSE x \in S : \A y \in S : x <= y
       IN  <<m>> \o FirstK(S \ {m}, k - 1)

\* JavaScript keeps a widget alive while something refers to it: a widget
\* that has no parent and is in keep no longer is reset to FreeItem.
Collect(store, keep) ==
  [i \in ItemIds |-> IF store[i].parent \/ i \in keep THEN store[i] ELSE FreeItem]

\* The ids a call can give to the widgets it creates.
FreeIds(store, keep) == {i \in ItemIds : ~store[i].parent /\ i \notin keep}

\* What a handler did: its name, its argument (the x of a pointer event),
\* what it returned and whether it threw; at is the y of a pointer event.
Op(name, arg, ret, threw) ==
  [op |-> name, arg |-> arg, ret |-> ret, threw |-> threw, at |-> null]
\* An emitted signal with the index it carries; line is the line of the URI
\* list it was emitted for (0 otherwise).
LineSignal(name, index, line) == [sig |-> name, index |-> index, line |-> line]
\* A signal that carries the index of the center item.
SignalOfCenter(name, index) == LineSignal(name, -1, 0)
Signal(name, index) == LineSignal(name, index, 0)

\* gtk_toggle_button_set_active(TRUE) on the button of item i: the buttons
\* of one group are exclusive, and all items join the editor's _radioGroup.
SetActive(store, i) ==
  [j \in ItemIds |-> [store[j] EXCEPT !.active = (j = i)]]

\* The texts the shortcut label shows while no accelerator is set.
NOT_BOUND == "Not Bound"
PRESS_THE_SHORTCUT == "Press the shortcut!\nESC to cancel, BackSpace to unbind"

\* What a handler of the shortcut widget did: its name, the key and the
\* modifiers of a key event and what it returned.
ShortcutOp(name, keyval, mods, ret) ==
  [op |-> name, keyval |-> keyval, mods |-> mods, ret |-> ret]

\* ---------------------------------------------------------------- _init

Init ==
  /\ item = [i \in ItemIds |-> FreeItem]
  /\ items = <<>>
  /\ centerItem = NoItem
  /\ selectedItem = NoItem
  /\ oldItems = <<>>
  /\ lastHideTime = 0
  /\ restartAnimation = FALSE
  /\ upcomingTransition = NONE
  /\ transitionAngle = 0
  /\ parentAngle = undefined
  /\ backButton = [reveal_child |-> FALSE, x |-> NoAnim, y |-> NoAnim,
                   allocation |-> NoAllocation]
  /\ dragIndex = null
  /\ dropIndex = null
  /\ dropRow = null
  /\ dropColumn = null
  /\ lastDropIndex = undefined
  /\ width = undefined
  /\ height = undefined
  /\ columnCount = undefined
  /\ rowCount = undefined
  /\ gridOffsetX2 = undefined
  /\ gridOffsetY2 = undefined
  /\ updateTimeout = undefined
  /\ frameTime = 0
  /\ frameClock = FALSE
  /\ tickCallbacks = {}
  /\ allocateQueued = FALSE
  /\ dragSource = [item |-> NoItem, cancelled |-> FALSE]
  /\ dropStatus = "none"
  /\ emitted = <<>>
  /\ lastOp = Op("_init", null, "none", FALSE)
  /\ hideTime = [i \in ItemIds |-> null]
  /\ motionIndex = null
  /\ calls = 0
  /\ passes = 0
  /\ label = [accelerator |-> "", disabled_text |-> NOT_BOUND]
  /\ listBoxRow = [parent |-> FALSE, selected |-> FALSE]
  /\ lastAccelerator = ""
  /\ doFullGrab = FALSE
  /\ shortcutsInhibited = FALSE
  /\ onSelectCalls = <<>>
  /\ shownBefore = ""
  /\ shortcutOp = ShortcutOp("none", "", "", FALSE)
  /\ activeAchievements = <<>>
  /\ completedAchievements = <<>>
  /\ activeBox = <<>>
  /\ completedBox = <<>>
  /\ achievementOp = [op |-> "none", id |-> 0, signals |-> 0]

\* An editor that takes itself to be in overview mode whatever it shows.
AlwaysOverview == TRUE

\* _inMenuOverviewMode()
InMenuOverviewMode == centerItem = NoItem

\* _createItem(config, itemState): the new widget, parented and revealed.
CreateItem(config, itemState) ==
  [state |-> itemState, config |-> config, parent |-> TRUE, reveal_child |-> TRUE,
   sensitive |-> TRUE, opacity |-> 100, active |-> FALSE, x |-> NoAnim, y |-> NoAnim,
   allocation |-> NoAllocation]

\* ------------------------------------------------------------- setItems

\* Two configurations name the same menu entry.
SameEntry(a, b) == a.name = b.name /\ a.icon = b.icon

\* The new center config is amongst the current items.
WentOneLevelDeeper(centerConfig) ==
  /\ centerConfig # NoConfig
  /\ \E i \in 1..Len(items) : SameEntry(item[items[i]].config, centerConfig)

\* The current center item is amongst the new configs.
WentOneLevelUp(configs) ==
  /\ centerItem # NoItem
  /\ \E i \in 1..Len(configs) : SameEntry(configs[i], item[centerItem].config)

\* A classification that reads the new parent angle where the code reads the
\* current one.
TransitionKindOfNewAngle(center, thisParentAngle, centerConfig, parentAngleArg, deeper, up) ==
  IF center = NoItem /\ Nullish(parentAngleArg) /\ centerConfig # NoConfig
  THEN TRANSITION_A
  ELSE IF center # NoItem /\ Nullish(parentAngleArg) /\ centerConfig = NoConfig
  THEN TRANSITION_B
  ELSE IF deeper THEN TRANSITION_C
  ELSE IF up THEN TRANSITION_D
  ELSE TRANSITION_E

\* The transition setItems asks for, from the current center item and parent
\* angle and from its own arguments.
TransitionKind(center, thisParentAngle, centerConfig, parentAngleArg, deeper, up) ==
  IF center = NoItem /\ Nullish(parentAngleArg) /\ centerConfig # NoConfig
  THEN TRANSITION_A
  ELSE IF center # NoItem /\ Nullish(thisParentAngle) /\ centerConfig = NoConfig
  THEN TRANSITION_B
  ELSE IF deeper THEN TRANSITION_C
  ELSE IF up THEN TRANSITION_D
  ELSE TRANSITION_E

\* (this._parentAngle + 180) % 360
OppositeAngle(a) ==
  IF a = undefined \/ a = NaN THEN NaN
  ELSE IF a = null THEN 180
  ELSE (a + 180) % 360

\* this._lastHideTime + TRANSITION_DURATION < now, with now the frame time.
OldItemsExpired(last, now) == last + TRANSITION_DURATION < now

\* setItems(configs, selectedIndex, centerConfig, parentAngle). An absent
\* selectedIndex is null, an absent centerConfig is NoConfig, an absent
\* parentAngle is undefined.
SetItems(configs, selectedIndex, centerConfig, parentAngleArg) ==
  LET kind == TransitionKind(centerItem, parentAngle, centerConfig, parentAngleArg,
                             WentOneLevelDeeper(centerConfig), WentOneLevelUp(configs))
      clear == frameClock /\ OldItemsExpired(lastHideTime, frameTime)
      kept == IF clear THEN <<>> ELSE oldItems
      hidden == kept \o items \o (IF centerItem # NoItem THEN <<centerItem>> ELSE <<>>)
      \* unparent the expired items, hide the superseded ones
      store1 ==
        [i \in ItemIds |->
          IF InSeq(i, hidden)
          THEN [item[i] EXCEPT !.reveal_child = FALSE, !.sensitive = FALSE]
          ELSE IF InSeq(i, oldItems) THEN [item[i] EXCEPT !.parent = FALSE]
          ELSE item[i]]
      n == Len(configs)
      count == n + (IF centerConfig # NoConfig THEN 1 ELSE 0)
      childState == IF centerConfig # NoConfig THEN CHILD ELSE GRID
  IN
  \E store2 \in {Collect(store1, {dragSource.item})} :
  \E ids \in {FirstK(FreeIds(store2, {dragSource.item}), count)} :
  LET store3 ==
        [i \in ItemIds |->
          IF \E j \in 1..n : ids[j] = i
          THEN CreateItem(configs[CHOOSE j \in 1..n : ids[j] = i], childState)
          ELSE IF centerConfig # NoConfig /\ ids[count] = i
          THEN CreateItem(centerConfig, CENTER)
          ELSE store2[i]]
      newItems == SubSeq(ids, 1, n)
      newCenter == IF centerConfig # NoConfig THEN ids[count] ELSE NoItem
      selected ==
        IF centerConfig # NoConfig /\ selectedIndex = -1 THEN newCenter
        ELSE IF selectedIndex >= 0 /\ selectedIndex < n THEN newItems[selectedIndex + 1]
        ELSE NoItem
  IN
  /\ calls < MaxCalls
  /\ calls' = calls + 1
  /\ Len(ids) = count
  /\ item' = IF selected = NoItem THEN store3 ELSE SetActive(store3, selected)
  /\ upcomingTransition' = kind
  /\ transitionAngle' =
       IF kind = TRANSITION_C THEN parentAngleArg
       ELSE IF kind = TRANSITION_D THEN OppositeAngle(parentAngle)
       ELSE transitionAngle
  /\ lastHideTime' = IF frameClock THEN frameTime ELSE lastHideTime
  /\ oldItems' = hidden
  /\ hideTime' =
       [i \in ItemIds |->
         IF InSeq(i, items) \/ i = centerItem THEN frameTime
         ELSE IF InSeq(i, kept) THEN hideTime[i]
         ELSE null]
  /\ items' = newItems
  /\ centerItem' = newCenter
  /\ selectedItem' = selected
  /\ parentAngle' = parentAngleArg
  /\ backButton' = [backButton EXCEPT !.reveal_child = ~Nullish(parentAngleArg)]
  /\ restartAnimation' = TRUE
  /\ allocateQueued' = TRUE
  /\ emitted' = <<>>
  /\ lastOp' = Op("setItems", n, "none", FALSE)
  /\ UNCHANGED <<cursorVars, layoutVars, frameTime, frameClock, shortcutVars, achievementVars, tickCallbacks,
                 dragSource, dropStatus, motionIndex, passes>>

\* ------------------------------------------------------- the frame clock

\* The widget is realized: get_frame_clock() returns a clock from now on.
Realize ==
  /\ ~frameClock
  /\ frameClock' = TRUE
  /\ UNCHANGED <<item, editorVars, cursorVars, layoutVars, frameTime, tickCallbacks,
                 allocateQueued, dragSource, dropStatus, shortcutVars, achievementVars, emitted, lastOp,
                 hideTime, motionIndex, calls, passes>>

\* The frame clock moves on to the next frame.
FrameAdvance ==
  /\ frameClock
  /\ frameTime < MaxFrames * FrameMillis * 1000
  /\ frameTime' = frameTime + FrameMillis * 1000
  /\ UNCHANGED <<item, editorVars, cursorVars, layoutVars, frameClock, shortcutVars, achievementVars, tickCallbacks,
                 allocateQueued, dragSource, dropStatus, emitted, lastOp, hideTime, motionIndex, calls, passes>>

\* ------------------------------------------------------------ the angles

\* Radius of the edited menu: ItemSize[ItemState.GRID] * 1.4.
Radius == 182

\* Math.floor(Math.sin(a * Math.PI / 180) * radius) for a = 0, 1, ..., 359
\* degrees, in IEEE double arithmetic (Math.sin(Math.PI) is a little above
\* zero and gives 0).
SinTable ==
  <<0, 3, 6, 9, 12, 15, 19, 22, 25, 28, 31, 34, 37, 40, 44,
    47, 50, 53, 56, 59, 62, 65, 68, 71, 74, 76, 79, 82, 85, 88,
    90, 93, 96, 99, 101, 104, 106, 109, 112, 114, 116, 119, 121, 124, 126,
    128, 130, 133, 135, 137, 139, 141, 143, 145, 147, 149, 150, 152, 154, 156,
    157, 159, 160, 162, 163, 164, 166, 167, 168, 169, 171, 172, 173, 174, 174,
    175, 176, 177, 178, 178, 179, 179, 180, 180, 181, 181, 181, 181, 181, 181,
    182, 181, 181, 181, 181, 181, 181, 180, 180, 179, 179, 178, 178, 177, 176,
    175, 174, 174, 173, 172, 171, 169, 168, 167, 166, 164, 163, 162, 160, 159,
    157, 156, 154, 152, 150, 149, 147, 145, 143, 141, 139, 137, 135, 133, 130,
    128, 126, 124, 121, 119, 116, 114, 112, 109, 106, 104, 101, 99, 96, 93,
    90, 88, 85, 82, 79, 76, 74, 71, 68, 65, 62, 59, 56, 53, 50,
    47, 44, 40, 37, 34, 31, 28, 25, 22, 19, 15, 12, 9, 6, 3,
    0, -4, -7, -10, -13, -16, -20, -23, -26, -29, -32, -35, -38, -41, -45,
    -48, -51, -54, -57, -60, -63, -66, -69, -72, -75, -77, -80, -83, -86, -89,
    -92, -94, -97, -100, -102, -105, -107, -110, -113, -115, -117, -120, -122, -125, -127,
    -129, -131, -134, -136, -138, -140, -142, -144, -146, -148, -150, -151, -153, -155, -157,
    -158, -160, -161, -163, -164, -165, -167, -168, -169, -170, -172, -173, -174, -175, -175,
    -176, -177, -178, -179, -179, -180, -180, -181, -181, -182, -182, -182, -182, -182, -182,
    -182, -182, -182, -182, -182, -182, -182, -181, -181, -180, -180, -179, -179, -178, -177,
    -176, -175, -175, -174, -173, -172, -170, -169, -168, -167, -165, -164, -163, -161, -160,
    -158, -157, -155, -153, -151, -150, -148, -146, -144, -142, -140, -138, -136, -134, -131,
    -129, -127, -125, -122, -120, -117, -115, -113, -110, -107, -105, -102, -100, -97, -94,
    -92, -89, -86, -83, -80, -77, -75, -72, -69, -66, -63, -60, -57, -54, -51,
    -48, -45, -41, -38, -35, -32, -29, -26, -23, -20, -16, -13, -10, -7, -4>>

\* -Math.floor(Math.cos(a * Math.PI / 180) * radius) for a = 0, 1, ..., 359
\* degrees (Math.cos(270 degrees) is a little below zero and gives 1).
CosTable ==
  <<-182, -181, -181, -181, -181, -181, -181, -180, -180, -179, -179, -178, -178, -177, -176,
    -175, -174, -174, -173, -172, -171, -169, -168, -167, -166, -164, -163, -162, -160, -159,
    -157, -156, -154, -152, -150, -149, -147, -145, -143, -141, -139, -137, -135, -133, -130,
    -128, -126, -124, -121, -119, -116, -114, -112, -109, -106, -104, -101, -99, -96, -93,
    -91, -88, -85, -82, -79, -76, -74, -71, -68, -65, -62, -59, -56, -53, -50,
    -47, -44, -40, -37, -34, -31, -28, -25, -22, -19, -15, -12, -9, -6, -3,
    0, 4, 7, 10, 13, 16, 20, 23, 26, 29, 32, 35, 38, 41, 45,
    48, 51, 54, 57, 60, 63, 66, 69, 72, 75, 77, 80, 83, 86, 89,
    91, 94, 97, 100, 102, 105, 107, 110, 113, 115, 117, 120, 122, 125, 127,
    129, 131, 134, 136, 138, 140, 142, 144, 146, 148, 150, 151, 153, 155, 157,
    158, 160, 161, 163, 164, 165, 167, 168, 169, 170, 172, 173, 174, 175, 175,
    176, 177, 178, 179, 179, 180, 180, 181, 181, 182, 182, 182, 182, 182, 182,
    182, 182, 182, 182, 182, 182, 182, 181, 181, 180, 180, 179, 179, 178, 177,
    176, 175, 175, 174, 173, 172, 170, 169, 168, 167, 165, 164, 163, 161, 160,
    158, 157, 155, 153, 151, 150, 148, 146, 144, 142, 140, 138, 136, 134, 131,
    129, 127, 125, 122, 120, 117, 115, 113, 110, 107, 105, 102, 100, 97, 94,
    92, 89, 86, 83, 80, 77, 75, 72, 69, 66, 63, 60, 57, 54, 51,
    48, 45, 41, 38, 35, 32, 29, 26, 23, 20, 16, 13, 10, 7, 4,
    1, -3, -6, -9, -12, -15, -19, -22, -25, -28, -31, -34, -37, -40, -44,
    -47, -50, -53, -56, -59, -62, -65, -68, -71, -74, -76, -79, -82, -85, -88,
    -91, -93, -96, -99, -101, -104, -106, -109, -112, -114, -116, -119, -121, -124, -126,
    -128, -130, -133, -135, -137, -139, -141, -143, -145, -147, -149, -150, -152, -154, -156,
    -157, -159, -160, -162, -163, -164, -166, -167, -168, -169, -171, -172, -173, -174, -174,
    -175, -176, -177, -178, -178, -179, -179, -180, -180, -181, -181, -181, -181, -181, -181>>

\* Math.floor(Math.sin(angle) * radius), NaN for an undefined angle.
OffsetX(angle) ==
  IF angle \in 0..359 THEN SinTable[angle + 1] ELSE NaN

\* -Math.floor(Math.cos(angle) * radius), NaN for an undefined angle.
OffsetY(angle) ==
  IF angle \in 0..359 THEN CosTable[angle + 1] ELSE NaN

\* a + b in JavaScript numbers: NaN if either is.
Plus(a, b) == IF a = NaN \/ b = NaN THEN NaN ELSE a + b
Minus(a, b) == IF a = NaN \/ b = NaN THEN NaN ELSE a - b

\* utils.computeItemAngles(items, parentAngle) for items without fixed angle:
\* the angle of the first item. Without a parent it is 0; with one, the circle
\* is split into Len + 1 wedges starting at the parent and the first item takes
\* the wedge boundary closest to the top.
FirstAngle(n, parent) ==
  IF Nullish(parent) THEN 0
  ELSE LET wedgeSize == 360 \div (n + 1)
           angle(i) == (parent + (i + 1) * wedgeSize) % 360
           diff(i) == Min(angle(i), 360 - angle(i))
           best == CHOOSE i \in 0..(n - 1) :
                     /\ \A j \in 0..(n - 1) : diff(i) <= diff(j)
                     /\ \A j \in 0..(i - 1) : diff(j) > diff(i)
       IN  angle(best)

\* The angles of the items index, ..., n - 1, which follow the first item in
\* steps of gap; the step over the parent direction p is left out once.
RECURSIVE WedgeAngles(_, _, _, _, _, _, _)
WedgeAngles(index, n, begin, gap, count, p, gapRequired) ==
  IF index >= n THEN <<>>
  ELSE LET skip == gapRequired /\ 2 * (begin + gap * count) + gap - 2 * p > 0
           c == IF skip THEN count + 1 ELSE count
       IN  <<(begin + gap * c) % 360>> \o
           WedgeAngles(index + 1, n, begin, gap, c + 1, p, gapRequired /\ ~skip)

\* The angles of n items of which the first is at the angle first.
SpreadFrom(n, first, parent) ==
  <<first>> \o
    WedgeAngles(1, n, first, 360 \div (IF Nullish(parent) THEN n ELSE n + 1), 1,
                IF Nullish(parent) THEN 0
                ELSE IF parent < first THEN parent + 360 ELSE parent,
                ~Nullish(parent))

\* The 0-based positions of the entries that carry a fixed angle, in order.
FixedPositions(fixedAngles) ==
  SelectSeq([i \in 1..Len(fixedAngles) |-> i - 1], LAMBDA i : fixedAngles[i + 1] # null)

\* The angles of the entries from the k-th fixed one up to the next fixed one:
\* the fixed angle, then the free entries evenly spread up to the next fixed
\* angle, the parent direction left free if it lies in between.
PinnedWedge(fixedAngles, positions, k, parent) ==
  LET n == Len(fixedAngles)
      beginIndex == positions[k]
      endIndex == positions[(k % Len(positions)) + 1]
      begin == fixedAngles[beginIndex + 1]
      end0 == fixedAngles[endIndex + 1]
      end == IF end0 <= begin THEN end0 + 360 ELSE end0
      p == IF Nullish(parent) THEN 0
           ELSE IF parent > begin /\ parent < end THEN parent ELSE parent + 360
      parentInWedge == ~Nullish(parent) /\ p > begin /\ p < end
      count == (endIndex - beginIndex - 1 + n) % n
  IN  <<begin>> \o
        WedgeAngles(0, count, begin,
                    (end - begin) \div (count + 1 + (IF parentInWedge THEN 1 ELSE 0)),
                    1, p, parentInWedge)

\* The wedges k, k + 1, ..., one after the other.
RECURSIVE PinnedWedges(_, _, _, _)
PinnedWedges(fixedAngles, positions, k, parent) ==
  IF k > Len(positions) THEN <<>>
  ELSE PinnedWedge(fixedAngles, positions, k, parent)
       \o PinnedWedges(fixedAngles, positions, k + 1, parent)

\* The angles of entries some of which carry a fixed angle: the wedges start
\* at the first fixed entry and are turned back into the order of the entries.
PinnedSpread(fixedAngles, positions, parent) ==
  LET n == Len(fixedAngles)
      wedges == PinnedWedges(fixedAngles, positions, 1, parent)
  IN  [i \in 1..n |-> wedges[((i - 1 - positions[1] + n) % n) + 1]]

\* utils.computeItemAngles(fixedAngles, parentAngle): one angle per entry, in
\* order: the fixed angle of an entry that carries one, the other entries
\* evenly spread between them (over the circle if there is none), the parent
\* direction left free.
UtilsComputeItemAngles(fixedAngles, parent) ==
  IF Len(fixedAngles) = 0 THEN <<>>
  ELSE IF FixedPositions(fixedAngles) = <<>>
  THEN SpreadFrom(Len(fixedAngles), FirstAngle(Len(fixedAngles), parent), parent)
  ELSE PinnedSpread(fixedAngles, FixedPositions(fixedAngles), parent)

\* a % b in JavaScript for b > 0: the sign of the dividend.
JsMod(a, b) == IF a >= 0 THEN a % b ELSE -((-a) % b)

\* An entry with the fixed angle of the bottom of the menu.
FixedAtBottom(config) == 180

\* The entry _computeItemAngles pushes for an item: its fixed angle, if any.
FixedAngleOf(config) == IF config.angle >= 0 THEN config.angle ELSE null

\* The entries pushed for the items i, ..., n - 1: an artificial entry where
\* the drop gap is, none for the dragged item.
RECURSIVE FixedAnglesFrom(_, _)
FixedAnglesFrom(i, dropIdx) ==
  IF i >= Len(items) THEN <<>>
  ELSE (IF dropIdx = i THEN <<null>> ELSE <<>>)
       \o (IF i = dragIndex THEN <<>> ELSE <<FixedAngleOf(item[items[i + 1]].config)>>)
       \o FixedAnglesFrom(i + 1, dropIdx)

\* The array handed to utils.computeItemAngles: with an artificial last entry
\* if the drop gap is behind the last item.
FixedAngles(dropIdx) ==
  FixedAnglesFrom(0, dropIdx) \o (IF dropIdx = Len(items) THEN <<null>> ELSE <<>>)

\* The angles without the one of the artificial entry.
WithoutGap(angles, dropIdx) ==
  IF Nullish(dropIdx) THEN angles
  ELSE SpliceRemove(angles,
                    IF dragIndex # null /\ dropIdx > dragIndex + 1
                    THEN dropIdx - 1 ELSE dropIdx)

\* A dragged item that is drawn at the top.
TopAngle(angles) == 0

\* angles[this._dragIndex % angles.length]
DraggedAngle(angles) ==
  IF Len(angles) = 0 \/ JsMod(dragIndex, Len(angles)) < 0 THEN undefined
  ELSE angles[JsMod(dragIndex, Len(angles)) + 1]

\* The angles with an entry for the dragged item, a copy of its successor's.
WithDragged(angles) ==
  IF dragIndex # null THEN SpliceInsert(angles, dragIndex, DraggedAngle(angles))
  ELSE angles

\* _computeItemAngles(), with this._dropIndex = dropIdx. An entry that is
\* undefined in the code's array is undefined here.
ComputeItemAngles(dropIdx) ==
  WithDragged(WithoutGap(UtilsComputeItemAngles(FixedAngles(dropIdx), parentAngle),
                         dropIdx))

\* ------------------------------------------------------- AnimatedValue

\* AnimatedValue.get(time): the end once the end time is reached, the start
\* up to the start time, a value between the two in between.
Get(a, time) ==
  IF time >= a.endTime THEN a.end
  ELSE IF time <= a.startTime THEN a.start
  ELSE IF a.start = NaN \/ a.end = NaN THEN NaN
  ELSE a.start + ((a.end - a.start) * (time - a.startTime)) \div (a.endTime - a.startTime)

\* AnimatedValue.isFinished(time)
IsFinished(a, time) == time >= a.endTime

\* One coordinate of setAnimation: a new AnimatedValue starts at its target;
\* an existing one restarts from its current value if restart is set.
Animate(a, time, target, restart) ==
  [def |-> TRUE,
   start |-> IF ~a.def THEN target ELSE IF restart THEN Get(a, time) ELSE a.start,
   end |-> target,
   startTime |-> IF restart THEN time ELSE a.startTime,
   endTime |-> IF restart THEN time + TRANSITION_DURATION ELSE a.endTime]

\* setAnimation(item, time, x, y) of vfunc_size_allocate, on a widget record.
SetAnimation(it, time, x2, y2, restart) ==
  [it EXCEPT !.x = Animate(it.x, time, x2, restart),
             !.y = Animate(it.y, time, y2, restart)]

\* Twice a pixel value, NaN kept.
Twice(v) == IF v = NaN THEN NaN ELSE 2 * v

\* -------------------------------------------------- vfunc_size_allocate

\* Math.floor(width / ItemSize[ItemState.GRID])
FloorColumns(w) == w \div ItemSizeOf(GRID)

\* this._rowCount: Math.ceil(this._items.length / this._columnCount)
GridRows(w, n) == CeilDiv(n, FloorColumns(w))

\* A column count without the single-row adjustment.
ColumnsOfWidth(w, n) == FloorColumns(w)

\* this._columnCount after the single-row adjustment.
GridColumns(w, n) == IF GridRows(w, n) = 1 THEN n ELSE FloorColumns(w)

\* The grid offsets, in half pixels: twice (size - count * cell) / 2.
GridOffset2(size, count) == size - count * ItemSizeOf(GRID)

\* An offset that makes room in every row.
ShiftInAllRows(row, column) ==
  IF dropColumn # null /\ column < dropColumn
  THEN -(Max(0, 3 - (dropColumn - column) + 1) * 15)
  ELSE Max(0, 3 - (column - (IF dropColumn = null THEN 0 ELSE dropColumn))) * 15

\* The horizontal offset (pixels) that makes room for the dropped item.
DropShift(row, column) ==
  IF row = dropRow
  THEN IF dropColumn # null /\ column < dropColumn
       THEN -(Max(0, 3 - (dropColumn - column) + 1) * 15)
       ELSE Max(0, 3 - (column - (IF dropColumn = null THEN 0 ELSE dropColumn))) * 15
  ELSE 0

\* The target (half pixels) of the item at index i of n in the grid.
GridX2(w, n, i) ==
  LET column == i % GridColumns(w, n)
      row == i \div GridColumns(w, n)
  IN  GridOffset2(w, GridColumns(w, n)) + 2 * (column * ItemSizeOf(GRID) + DropShift(row, column))

GridY2(w, h, n, i) ==
  GridOffset2(h, GridRows(w, n)) + 2 * ((i \div GridColumns(w, n)) * ItemSizeOf(GRID))

\* The target (half pixels) of a widget of size `size` placed on the circle at
\* `angle` around the center of a w x h area.
RadialX2(w, angle, size) == Twice(Minus(Plus(OffsetX(angle), w \div 2), size \div 2))
RadialY2(h, angle, size) == Twice(Minus(Plus(OffsetY(angle), h \div 2), size \div 2))

\* The target of a widget of size `size` centered in the area.
CenterX2(w, size) == 2 * (w \div 2 - size \div 2)
CenterY2(h, size) == 2 * (h \div 2 - size \div 2)

\* First part of the pass: every current item, the center item and the back
\* button get their target.
LayoutItemsAt(store, w, h, time, restart, angles) ==
  LET n == Len(items)
      angleOf(i) == IF i < Len(angles) THEN angles[i + 1] ELSE undefined
  IN  [id \in ItemIds |->
        IF InSeq(id, items)
        THEN LET i == IndexOf(items, id)
             IN  IF InMenuOverviewMode
                 THEN SetAnimation(store[id], time, GridX2(w, n, i), GridY2(w, h, n, i), restart)
                 ELSE SetAnimation(store[id], time,
                                   RadialX2(w, angleOf(i), ItemSizeOf(store[id].state)),
                                   RadialY2(h, angleOf(i), ItemSizeOf(store[id].state)),
                                   restart)
        ELSE IF id = centerItem
        THEN SetAnimation(store[id], time, CenterX2(w, ItemSizeOf(store[id].state)),
                          CenterY2(h, ItemSizeOf(store[id].state)), restart)
        ELSE store[id]]

LayoutItems(store, w, h, time, restart) ==
  LayoutItemsAt(store, w, h, time, restart,
                IF InMenuOverviewMode THEN <<>> ELSE ComputeItemAngles(dropIndex))

LayoutBackButton(w, h, time, restart) ==
  IF ~Nullish(parentAngle)
  THEN SetAnimation(backButton, time, RadialX2(w, parentAngle, ItemSizeOf(CHILD)),
                    RadialY2(h, parentAngle, ItemSizeOf(CHILD)), restart)
  ELSE SetAnimation(backButton, time, CenterX2(w, ItemSizeOf(CHILD)),
                    CenterY2(h, ItemSizeOf(CHILD)), restart)

\* The first old item that shows the same entry as the widget `other`, or
\* NoItem.
MatchingOldItem(store, other) ==
  IF \E k \in 1..Len(oldItems) : SameEntry(store[oldItems[k]].config, store[other].config)
  THEN oldItems[CHOOSE k \in 1..Len(oldItems) :
                  /\ SameEntry(store[oldItems[k]].config, store[other].config)
                  /\ \A j \in 1..(k - 1) :
                       ~SameEntry(store[oldItems[j]].config, store[other].config)]
  ELSE NoItem

\* Transition A: the old item that became the center moves to the center.
TransitionA(store, w, h, time, restart) ==
  LET old == MatchingOldItem(store, centerItem)
  IN  [id \in ItemIds |->
        IF id = old /\ old # NoItem
        THEN SetAnimation(store[id], time, CenterX2(w, ItemSizeOf(store[id].state)),
                          CenterY2(h, ItemSizeOf(store[id].state)), restart)
        ELSE store[id]]

\* Transition B: the old center moves to where the selected item goes.
TransitionB(store, time, restart) ==
  LET old == MatchingOldItem(store, selectedItem)
  IN  [id \in ItemIds |->
        IF id = old /\ old # NoItem
        THEN SetAnimation(store[id], time, store[selectedItem].x.end,
                          store[selectedItem].y.end, restart)
        ELSE store[id]]

\* The number of old items transitions C and D move before an old item that
\* was never laid out (item.x undefined) stops them: all of them if none is.
MovableOldItems(store) ==
  IF \E k \in 1..Len(oldItems) : ~store[oldItems[k]].x.def
  THEN (CHOOSE k \in 1..Len(oldItems) :
          /\ ~store[oldItems[k]].x.def
          /\ \A j \in 1..(k - 1) : store[oldItems[j]].x.def) - 1
  ELSE Len(oldItems)

\* Transitions C and D with the new items displaced at their targets rather
\* than at their starts.
TransitionCDAtTargets(store, time, restart, moved, shift) ==
  LET offsetX2 == Twice(OffsetX(transitionAngle))
      offsetY2 == Twice(OffsetY(transitionAngle))
  IN  [id \in ItemIds |->
        IF InSeq(id, oldItems) /\ IndexOf(oldItems, id) < moved
        THEN SetAnimation(store[id], time, Plus(store[id].x.end, offsetX2),
                          Plus(store[id].y.end, offsetY2), restart)
        ELSE IF shift /\ (InSeq(id, items) \/ (id = centerItem /\ id # NoItem))
        THEN [store[id] EXCEPT !.x.end = Minus(@, offsetX2),
                               !.y.end = Minus(@, offsetY2)]
        ELSE store[id]]

\* Transitions C and D: the old items move away by the slide offset, the new
\* items and the center item start displaced by it. `moved` old items are
\* reached, and the new ones only if `shift` is set.
TransitionCD(store, time, restart, moved, shift) ==
  LET offsetX2 == Twice(OffsetX(transitionAngle))
      offsetY2 == Twice(OffsetY(transitionAngle))
  IN  [id \in ItemIds |->
        IF InSeq(id, oldItems) /\ IndexOf(oldItems, id) < moved
        THEN SetAnimation(store[id], time, Plus(store[id].x.end, offsetX2),
                          Plus(store[id].y.end, offsetY2), restart)
        ELSE IF shift /\ (InSeq(id, items) \/ (id = centerItem /\ id # NoItem))
        THEN [store[id] EXCEPT !.x.start = Minus(@, offsetX2),
                               !.y.start = Minus(@, offsetY2)]
        ELSE store[id]]

\* Whether the switch over this._upcomingTransition dereferences null or
\* undefined (a TypeError that ends the pass).
TransitionThrows(store) ==
  CASE upcomingTransition = TRANSITION_A ->
         Len(oldItems) > 0 /\ centerItem = NoItem
    [] upcomingTransition = TRANSITION_B ->
         \/ Len(oldItems) > 0 /\ selectedItem = NoItem
         \/ /\ selectedItem # NoItem
            /\ MatchingOldItem(store, selectedItem) # NoItem
            /\ ~store[selectedItem].x.def
    [] upcomingTransition \in {TRANSITION_C, TRANSITION_D} ->
         MovableOldItems(store) < Len(oldItems) \/ centerItem = NoItem
    [] OTHER -> FALSE

\* The widgets after the switch over this._upcomingTransition.
ApplyTransition(store, w, h, time, restart) ==
  CASE upcomingTransition = TRANSITION_A /\ ~TransitionThrows(store) ->
         TransitionA(store, w, h, time, restart)
    [] upcomingTransition = TRANSITION_B /\ ~TransitionThrows(store) ->
         TransitionB(store, time, restart)
    [] upcomingTransition \in {TRANSITION_C, TRANSITION_D} ->
         TransitionCD(store, time, restart, MovableOldItems(store),
                      MovableOldItems(store) = Len(oldItems))
    [] OTHER -> store

\* impl(item) of _updateItemPositions(time): the widget is allocated where its
\* animated values are at time, or at the origin if it has none.
Allocated(it, time) ==
  [it EXCEPT !.allocation =
     IF it.x.def /\ it.y.def THEN [x |-> Get(it.x, time), y |-> Get(it.y, time)]
     ELSE NoAllocation]

\* _updateItemPositions(time) on the widgets of the current items, the old
\* items and the center item.
UpdateItemPositions(store, time) ==
  [id \in ItemIds |->
     IF InSeq(id, items) \/ InSeq(id, oldItems) \/ id = centerItem
     THEN Allocated(store[id], time)
     ELSE store[id]]

\* The id add_tick_callback returns: one no registered callback has.
NewCallbackId(registered) == CHOOSE k \in 1..(Cardinality(registered) + 1) : k \notin registered

\* A pass that leaves a running timeout alone.
KeepTimeout(registered, timeout) == registered

\* if (this._updateTimeout >= 0) this.remove_tick_callback(this._updateTimeout)
CancelTimeout(registered, timeout) ==
  IF timeout >= 0 THEN registered \ {timeout} ELSE registered

\* vfunc_size_allocate(width, height, baseline). The toolkit runs a pass when
\* one was queued or when the size changed.
SizeAllocate(w, h) ==
  \E time \in {frameTime \div 1000} :
  \E laid \in {LayoutItems(item, w, h, time, restartAnimation)} :
  LET threw == TransitionThrows(laid)
      stillRegistered == CancelTimeout(tickCallbacks, updateTimeout)
  IN
  /\ frameClock
  /\ allocateQueued \/ w # width \/ h # height
  /\ passes < MaxPasses
  /\ passes' = passes + 1
  /\ width' = w
  /\ height' = h
  /\ IF InMenuOverviewMode
     THEN /\ columnCount' = GridColumns(w, Len(items))
          /\ rowCount' = GridRows(w, Len(items))
          /\ gridOffsetX2' = GridOffset2(w, GridColumns(w, Len(items)))
          /\ gridOffsetY2' = GridOffset2(h, GridRows(w, Len(items)))
     ELSE UNCHANGED <<columnCount, rowCount, gridOffsetX2, gridOffsetY2>>
  /\ backButton' =
       IF threw THEN LayoutBackButton(w, h, time, restartAnimation)
       ELSE Allocated(LayoutBackButton(w, h, time, restartAnimation), time)
  /\ item' =
       IF threw THEN ApplyTransition(laid, w, h, time, restartAnimation)
       ELSE UpdateItemPositions(ApplyTransition(laid, w, h, time, restartAnimation), time)
  /\ allocateQueued' = FALSE
  /\ IF threw
     THEN UNCHANGED <<upcomingTransition, restartAnimation, updateTimeout, tickCallbacks>>
     ELSE /\ upcomingTransition' = NONE
          /\ restartAnimation' = FALSE
          /\ IF restartAnimation
             THEN /\ updateTimeout' = NewCallbackId(stillRegistered)
                  /\ tickCallbacks' = stillRegistered \cup {NewCallbackId(stillRegistered)}
             ELSE UNCHANGED <<updateTimeout, tickCallbacks>>
  /\ emitted' = <<>>
  /\ lastOp' = Op("vfunc_size_allocate", w, "none", threw)
  /\ UNCHANGED <<items, centerItem, selectedItem, oldItems, lastHideTime, transitionAngle,
                 parentAngle, cursorVars, frameTime, frameClock, shortcutVars, achievementVars, dragSource, dropStatus,
                 hideTime, motionIndex, calls>>

\* A tick callback for which no animation is ever finished.
NeverFinished(time) == FALSE

\* The tick callback registered by vfunc_size_allocate: it runs
\* _updateItemPositions and removes itself once every animation is finished.
AllFinished(time) ==
  /\ \A id \in ItemIds :
       (InSeq(id, items) \/ InSeq(id, oldItems) \/ id = centerItem) /\ item[id].x.def
         => IsFinished(item[id].x, time) /\ IsFinished(item[id].y, time)
  /\ backButton.x.def => IsFinished(backButton.x, time) /\ IsFinished(backButton.y, time)

TickCallback(id) ==
  /\ id \in tickCallbacks
  /\ IF AllFinished(frameTime \div 1000)
     THEN /\ updateTimeout' = -1
          /\ tickCallbacks' = tickCallbacks \ {id}
          /\ lastOp' = Op("tick", id, "false", FALSE)
     ELSE /\ UNCHANGED <<updateTimeout, tickCallbacks>>
          /\ lastOp' = Op("tick", id, "true", FALSE)
  /\ item' = UpdateItemPositions(item, frameTime \div 1000)
  /\ backButton' = Allocated(backButton, frameTime \div 1000)
  /\ emitted' = <<>>
  /\ UNCHANGED <<items, centerItem, selectedItem, oldItems, lastHideTime, restartAnimation,
                 upcomingTransition, transitionAngle, parentAngle, cursorVars, width,
                 height, columnCount, rowCount, gridOffsetX2, gridOffsetY2, frameTime,
                 frameClock, shortcutVars, achievementVars, allocateQueued, dragSource, dropStatus, hideTime, motionIndex,
                 calls, passes>>

\* updateLayout(): the next layout pass restarts the animations.
UpdateLayout ==
  /\ restartAnimation' = TRUE
  /\ allocateQueued' = TRUE
  /\ emitted' = <<>>
  /\ lastOp' = Op("updateLayout", null, "none", FALSE)
  /\ UNCHANGED <<item, items, centerItem, selectedItem, oldItems, lastHideTime,
                 upcomingTransition, transitionAngle, parentAngle, backButton, cursorVars,
                 layoutVars, frameTime, frameClock, shortcutVars, achievementVars, tickCallbacks, dragSource, dropStatus,
                 hideTime, motionIndex, calls, passes>>

\* ------------------------------------------------------- add and remove

\* The widgets after _createItem(config, itemState) made widget id.
WithNewItem(store, id, config, itemState) ==
  [store EXCEPT ![id] = CreateItem(config, itemState)]

\* add(config, where)
Add(config, where) ==
  LET store == Collect(item, {dragSource.item})
      free == FreeIds(store, {dragSource.item})
      id == CHOOSE i \in free : \A j \in free : i <= j
  IN
  /\ free # {}
  /\ calls < MaxCalls
  /\ calls' = calls + 1
  /\ item' = SetActive(WithNewItem(store, id, config,
                                   IF InMenuOverviewMode THEN GRID ELSE CHILD), id)
  /\ selectedItem' = id
  /\ items' = SpliceInsert(items, where, id)
  /\ IF Nullish(dragIndex)
     THEN restartAnimation' = TRUE /\ allocateQueued' = TRUE
     ELSE UNCHANGED <<restartAnimation, allocateQueued>>
  /\ emitted' = <<>>
  /\ lastOp' = Op("add", where, "none", FALSE)
  /\ UNCHANGED <<centerItem, oldItems, lastHideTime, upcomingTransition, transitionAngle,
                 parentAngle, backButton, cursorVars, layoutVars, frameTime, frameClock, shortcutVars, achievementVars,
                 tickCallbacks, dragSource, dropStatus, hideTime, motionIndex, passes>>

\* The item this._items.splice(which, 1) removes, or NoItem (undefined).
Removed(which) ==
  LET s == SpliceStart(Len(items), which)
  IN  IF s < Len(items) THEN items[s + 1] ELSE NoItem

\* removed.unparent() throws when nothing was removed.
RemoveThrows(which) == Removed(which) = NoItem

\* A removal that leaves the selection alone.
KeepSelected(which) == selectedItem

SelectedAfterRemove(which) ==
  IF Removed(which) = selectedItem THEN NoItem ELSE selectedItem

StoreAfterRemove(store, which) ==
  IF Removed(which) = NoItem THEN store
  ELSE [store EXCEPT ![Removed(which)].parent = FALSE]

\* remove(which)
Remove(which) ==
  /\ calls < MaxCalls
  /\ calls' = calls + 1
  /\ items' = SpliceRemove(items, which)
  /\ selectedItem' = SelectedAfterRemove(which)
  /\ item' = Collect(StoreAfterRemove(item, which), {dragSource.item})
  /\ emitted' = <<>>
  /\ lastOp' = Op("remove", which, "none", RemoveThrows(which))
  /\ UNCHANGED <<centerItem, oldItems, lastHideTime, restartAnimation, upcomingTransition,
                 transitionAngle, parentAngle, backButton, cursorVars, layoutVars,
                 toolkitVars, shortcutVars, achievementVars, hideTime, motionIndex, passes>>

\* ------------------------------------------------ the buttons of an item

\* The user can operate a widget that is shown and sensitive.
Operable(i) == item[i].parent /\ item[i].sensitive

\* A click on the toggle button of item i. A button that was not active
\* becomes the active one of its group; an active one stays active when it
\* shares its group with another button and is released otherwise
\* (staysActive). The 'clicked' handler then selects the item if its button
\* is active.
Click(i, staysActive) ==
  LET activeAfter == ~item[i].active \/ staysActive
  IN
  /\ Operable(i)
  /\ item[i].active \/ staysActive
  /\ IF activeAfter
     THEN /\ item' = SetActive(item, i)
          /\ selectedItem' = i
          /\ emitted' = <<Signal("select", IndexOf(items, i))>>
     ELSE /\ item' = [item EXCEPT ![i].active = FALSE]
          /\ UNCHANGED selectedItem
          /\ emitted' = <<>>
  /\ lastOp' = Op("clicked", i, "none", FALSE)
  /\ UNCHANGED <<items, centerItem, oldItems, lastHideTime, restartAnimation,
                 upcomingTransition, transitionAngle, parentAngle, backButton, cursorVars,
                 layoutVars, toolkitVars, shortcutVars, achievementVars, hideTime, motionIndex, calls, passes>>

\* A click on the edit button of item i, which is visible on custom menus
\* that are not the center item.
EditClick(i) ==
  /\ Operable(i)
  /\ item[i].state # CENTER
  /\ item[i].config.type = "CustomMenu"
  /\ selectedItem' = i
  /\ emitted' = <<Signal("edit", IndexOf(items, i))>>
  /\ lastOp' = Op("edit-clicked", i, "none", FALSE)
  /\ UNCHANGED <<item, items, centerItem, oldItems, lastHideTime, restartAnimation,
                 upcomingTransition, transitionAngle, parentAngle, backButton, cursorVars,
                 layoutVars, toolkitVars, shortcutVars, achievementVars, hideTime, motionIndex, calls, passes>>

\* ------------------------------------------------ the drag source of an item

NoDrag == [item |-> NoItem, cancelled |-> FALSE]

\* An internal drag is going on and was not cancelled.
InternalDrag == dragSource.item # NoItem /\ ~dragSource.cancelled

\* A widget that only shows itself again.
Shown(it) == [it EXCEPT !.opacity = 100]

\* A dragged widget made visible and usable again (opacity is in percent).
Restored(it) == [it EXCEPT !.opacity = 100, !.sensitive = TRUE]

\* 'drag-begin' on item i.
DragBegin(i) ==
  /\ Operable(i)
  /\ item[i].state # CENTER
  /\ dragSource.item = NoItem
  /\ dropStatus \in {"none", "left"}
  /\ item' = [item EXCEPT ![i].opacity = IF InMenuOverviewMode THEN 20 ELSE 0,
                          ![i].sensitive = FALSE]
  /\ dragIndex' = IndexOf(items, i)
  /\ restartAnimation' = TRUE
  /\ allocateQueued' = TRUE
  /\ dragSource' = [item |-> i, cancelled |-> FALSE]
  /\ dropStatus' = "none"
  /\ emitted' = <<>>
  /\ lastOp' = Op("drag-begin", i, "none", FALSE)
  /\ UNCHANGED <<items, centerItem, selectedItem, oldItems, lastHideTime,
                 upcomingTransition, transitionAngle, parentAngle, backButton, dropIndex,
                 dropRow, dropColumn, lastDropIndex, layoutVars, frameTime, frameClock, shortcutVars, achievementVars,
                 tickCallbacks, hideTime, motionIndex, calls, passes>>

\* 'drag-end' on the dragged item. After a cancelled drag deleteData is not
\* set.
DragEnd(deleteData) ==
  LET d == dragSource.item
      removeIndex == IndexOf(items, d)
      threw == deleteData /\ RemoveThrows(removeIndex)
  IN
  /\ d # NoItem
  /\ dragSource.cancelled => ~deleteData
  /\ IF deleteData
     THEN /\ items' = SpliceRemove(items, removeIndex)
          /\ selectedItem' = SelectedAfterRemove(removeIndex)
          /\ item' = Collect(StoreAfterRemove(item, removeIndex), {})
          /\ emitted' = IF threw THEN <<>> ELSE <<Signal("remove", removeIndex)>>
     ELSE /\ item' = Collect([item EXCEPT ![d] = Restored(item[d])], {})
          /\ emitted' = <<>>
          /\ UNCHANGED <<items, selectedItem>>
  /\ dragIndex' = IF threw THEN dragIndex ELSE null
  /\ dragSource' = NoDrag
  /\ dropStatus' = IF dropStatus \in {"accept", "reject", "done"} THEN "done" ELSE "none"
  /\ lastOp' = Op("drag-end", d, IF deleteData THEN "true" ELSE "false", threw)
  /\ UNCHANGED <<centerItem, oldItems, lastHideTime, restartAnimation, upcomingTransition,
                 transitionAngle, parentAngle, backButton, dropIndex, dropRow, dropColumn,
                 lastDropIndex, layoutVars, frameTime, frameClock, shortcutVars, achievementVars, tickCallbacks,
                 allocateQueued, hideTime, motionIndex, calls, passes>>

\* 'drag-cancel' on the dragged item; 'drag-end' follows.
DragCancel ==
  LET d == dragSource.item
  IN
  /\ d # NoItem
  /\ ~dragSource.cancelled
  /\ item' = [item EXCEPT ![d] = Restored(item[d])]
  /\ dragIndex' = null
  /\ restartAnimation' = TRUE
  /\ allocateQueued' = TRUE
  /\ dragSource' = [dragSource EXCEPT !.cancelled = TRUE]
  /\ emitted' = <<>>
  /\ lastOp' = Op("drag-cancel", d, "false", FALSE)
  /\ UNCHANGED <<items, centerItem, selectedItem, oldItems, lastHideTime,
                 upcomingTransition, transitionAngle, parentAngle, backButton, dropIndex,
                 dropRow, dropColumn, lastDropIndex, layoutVars, frameTime, frameClock, shortcutVars, achievementVars,
                 tickCallbacks, dropStatus, hideTime, motionIndex, calls, passes>>

\* ------------------------------------------------ the drop target of an item

\* What is dropped from outside: plain data, or a list of URIs of which
\* lines[i] tells whether line i is non-empty.
Payload(uris, lines) == [uris |-> uris, lines |-> lines]

\* The signals an external drop emits: one per non-empty line of a URI list,
\* with the index indexOfLine gives to line i; one for plain data.
RECURSIVE DataSignals(_, _, _, _, _)
DataSignals(name, payload, base, step, i) ==
  IF ~payload.uris THEN <<Signal(name, base)>>
  ELSE IF i >= Len(payload.lines) THEN <<>>
  ELSE (IF payload.lines[i + 1] THEN <<LineSignal(name, base + step * i, i)>> ELSE <<>>)
       \o DataSignals(name, payload, base, step, i + 1)

\* An item that accepts whatever is dropped.
AcceptAll(i) == TRUE

\* The 'accept' handler of the drop target of item i.
ItemAccept(i) == item[i].config.type = "CustomMenu"

\* 'drop' on the drop target of item i.
ItemDrop(i, payload) ==
  LET index == IndexOf(items, i)
  IN
  /\ Operable(i)
  /\ item[i].state # CENTER
  /\ ItemAccept(i)
  /\ ~dragSource.cancelled
  /\ dropStatus # "done"
  /\ emitted' = IF InternalDrag THEN <<Signal("drop-item-into", index)>>
                ELSE DataSignals("drop-data-into", payload, index, 0, 0)
  /\ selectedItem' = i
  /\ item' = SetActive(item, i)
  /\ dropColumn' = null
  /\ dropRow' = null
  /\ dropIndex' = null
  /\ dropStatus' = IF dropStatus \in {"accept", "reject"} THEN "done" ELSE "none"
  /\ lastOp' = Op("item-drop", i, "true", FALSE)
  /\ UNCHANGED <<items, centerItem, oldItems, lastHideTime, restartAnimation,
                 upcomingTransition, transitionAngle, parentAngle, backButton, dragIndex,
                 lastDropIndex, layoutVars, frameTime, frameClock, shortcutVars, achievementVars, tickCallbacks,
                 allocateQueued, dragSource, hideTime, motionIndex, calls, passes>>

\* --------------------------------------------- the drop target of the editor

\* JavaScript's a == b for numbers, null and undefined.
LooseEq(a, b) == a = b \/ (Nullish(a) /\ Nullish(b))

\* Pointer coordinates are in half pixels. In grid mode the pointer is made
\* relative to the grid and clamped to its bounds; before the first layout
\* pass in grid mode the grid's offsets are undefined and the result is NaN.
ClampedX2(x2) ==
  IF gridOffsetX2 = undefined THEN NaN
  ELSE Max(0, Min(columnCount * 2 * ItemSizeOf(GRID), x2 - gridOffsetX2))

ClampedY2(y2) ==
  IF gridOffsetY2 = undefined THEN NaN
  ELSE Max(0, Min(rowCount * 2 * ItemSizeOf(GRID), y2 - gridOffsetY2))

\* The clamped x is within a quarter of a cell of a cell boundary.
InDropZone(cx2) ==
  /\ cx2 # NaN
  /\ \/ 2 * (cx2 % (2 * ItemSizeOf(GRID))) < ItemSizeOf(GRID)
     \/ 2 * (cx2 % (2 * ItemSizeOf(GRID))) > 3 * ItemSizeOf(GRID)

\* Math.floor(x / ItemSize[ItemState.GRID] + 0.5)
GridDropColumn(cx2) == (cx2 + ItemSizeOf(GRID)) \div (2 * ItemSizeOf(GRID))

\* Math.floor(y / ItemSize[ItemState.GRID])
GridDropRow(cy2) == cy2 \div (2 * ItemSizeOf(GRID))

\* Math.min(this._items.length, this._columnCount * row + column)
\* An index that is not limited to the number of items.
CellIndex(n, columns, row, column) == columns * row + column

\* Math.min(this._items.length, this._columnCount * this._dropRow + this._dropColumn)
GridDropIndex(n, columns, row, column) == Min(n, columns * row + column)

\* The pointer offsets from the center (half pixels) for which MouseAngles
\* holds the angle.
RadialOffsets2 == <<-400, -100, 0, 100, 400, 120>>

\* (acos(x / distance) * 180 / PI, mirrored for y < 0, + 90) % 360 in IEEE
\* double arithmetic for the offsets x = RadialOffsets2[i] / 2 and
\* y = RadialOffsets2[j] / 2, in units of 1/200 degree; an odd number stands
\* for a value strictly between two multiples of 1/100 degree.
MouseAngles ==
  << <<63000, 56807, 54000, 51193, 45000, 50661>>,
     <<69193, 63000, 54000, 45000, 38807, 43961>>,
     <<0, 0, NaN, 36000, 36000, 36000>>,
     <<2807, 9000, 18000, 27000, 33193, 28039>>,
     <<9000, 15193, 18000, 20807, 27000, 21339>>,
     <<3339, 10039, 18000, 25961, 32661, 27000>> >>

OffsetIndex(d2) == CHOOSE i \in 1..Len(RadialOffsets2) : RadialOffsets2[i] = d2

Tabulated(dx2, dy2) ==
  /\ \E i \in 1..Len(RadialOffsets2) : RadialOffsets2[i] = dx2
  /\ \E i \in 1..Len(RadialOffsets2) : RadialOffsets2[i] = dy2

MouseAngle(dx2, dy2) == MouseAngles[OffsetIndex(dx2)][OffsetIndex(dy2)]

\* A hub that ends just inside its edge.
BeyondOrOnHub(dx2, dy2) == dx2 * dx2 + dy2 * dy2 >= ItemSizeOf(CENTER) * ItemSizeOf(CENTER)

\* distance > ItemSize[ItemState.CENTER] / 2, for offsets in half pixels.
OutsideHub(dx2, dy2) == dx2 * dx2 + dy2 * dy2 > ItemSizeOf(CENTER) * ItemSizeOf(CENTER)

\* An item angle in the unit of MouseAngle.
Ticks(angle) == IF angle = undefined \/ angle = NaN THEN NaN ELSE 200 * angle

\* mouseAngle - itemAngle < 90 || mouseAngle - itemAngle > 270
NearItem(mouse, itemAngle) ==
  /\ Ticks(itemAngle) # NaN
  /\ \/ mouse - Ticks(itemAngle) < 200 * 90
     \/ mouse - Ticks(itemAngle) > 200 * 270

\* The wedge between item i and the next one, as the loop of the motion
\* handler sees it: where it starts and ends, its width, its paddings and
\* whether it is the last one.
Wedge(itemAngles, i) ==
  LET len == Len(itemAngles)
      next == (i + 1) % len
      wedgeStart == Ticks(itemAngles[i + 1])
      wedgeEnd0 == Ticks(itemAngles[next + 1])
      wedgeEnd == IF wedgeEnd0 < wedgeStart THEN wedgeEnd0 + 200 * 360 ELSE wedgeEnd0
      diff == wedgeEnd - wedgeStart
  IN  [nan |-> wedgeStart = NaN \/ wedgeEnd0 = NaN,
       start |-> wedgeStart, end |-> wedgeEnd, diff |-> diff,
       startPadding |->
         IF item[items[i + 1]].config.type = "CustomMenu" THEN diff \div 4 ELSE 0,
       endPadding |->
         IF item[items[next + 1]].config.type = "CustomMenu" THEN diff \div 4 ELSE 0,
       last |-> i = len - 1 \/ (i = len - 2 /\ dragIndex = len - 1)]

\* A last wedge that is not split.
InNoHalf(w, mouse) == FALSE

\* The pointer is in the half of the last wedge that drops at index zero.
InFirstHalf(w, mouse) ==
  /\ w.last
  /\ ~w.nan
  /\ \/ mouse >= w.start + w.diff \div 2 /\ mouse < w.end - w.endPadding
     \/ /\ mouse + 200 * 360 >= w.start + w.diff \div 2
        /\ mouse + 200 * 360 < w.end - w.endPadding

\* The pointer is in the wedge, its paddings excluded.
InWedge(w, mouse) ==
  /\ ~w.nan
  /\ \/ mouse >= w.start + w.startPadding /\ mouse < w.end - w.endPadding
     \/ /\ mouse + 200 * 360 >= w.start + w.startPadding
        /\ mouse + 200 * 360 < w.end - w.endPadding

\* What the loop over the wedges yields when this._items has no item at a
\* position it reads (a TypeError).
Thrown == -3000

\* this._items[i] or this._items[(i + 1) % itemAngles.length] is undefined.
WedgeThrows(itemAngles, i) ==
  i >= Len(items) \/ (i + 1) % Len(itemAngles) >= Len(items)

\* The loop over the wedges, from wedge i on: the index of the first wedge
\* that holds the pointer, or null.
RECURSIVE WedgeDropIndex(_, _, _)
WedgeDropIndex(itemAngles, mouse, i) ==
  IF i >= Len(itemAngles) THEN null
  ELSE IF WedgeThrows(itemAngles, i) THEN Thrown
  ELSE IF InFirstHalf(Wedge(itemAngles, i), mouse) THEN 0
  ELSE IF InWedge(Wedge(itemAngles, i), mouse) THEN i + 1
  ELSE WedgeDropIndex(itemAngles, mouse, i + 1)

\* The insertion index in menu edit mode for a pointer at the angle mouse,
\* the items being at itemAngles.
AngularDropIndex(mouse, itemAngles) ==
  IF Len(itemAngles) = 0 THEN 0
  ELSE IF Len(itemAngles) = 1
  THEN IF dragIndex # null THEN 0
       ELSE IF NearItem(mouse, itemAngles[1]) THEN 0 ELSE 1
  ELSE IF Len(itemAngles) = 2 /\ dragIndex # null
  THEN IF NearItem(mouse, itemAngles[1]) THEN 0 ELSE 2
  ELSE WedgeDropIndex(itemAngles, mouse, 0)

\* The insertion index in menu edit mode for a pointer at the given offset
\* from the center.
RadialDropIndex(dx2, dy2) ==
  IF width = undefined \/ ~OutsideHub(dx2, dy2) THEN null
  ELSE AngularDropIndex(MouseAngle(dx2, dy2), ComputeItemAngles(null))

\* 'motion' on the editor's drop target, the pointer at (x2, y2) half pixels.
Motion(x2, y2) ==
  \E cx2 \in {ClampedX2(x2)}, cy2 \in {ClampedY2(y2)} :
  \E radial \in {IF InMenuOverviewMode THEN null
                 ELSE RadialDropIndex(x2 - width, y2 - height)} :
  \E threw \in {radial = Thrown} :
  \E column \in {IF ~InMenuOverviewMode THEN dropColumn
                 ELSE IF InDropZone(cx2) THEN GridDropColumn(cx2) ELSE null},
     row \in {IF ~InMenuOverviewMode THEN dropRow
              ELSE IF InDropZone(cx2) THEN GridDropRow(cy2) ELSE null} :
  \E index \in {IF ~InMenuOverviewMode THEN (IF threw THEN null ELSE radial)
                ELSE IF InDropZone(cx2)
                THEN GridDropIndex(Len(items), columnCount, row, column)
                ELSE null} :
  /\ dragSource.item # NoItem => ~dragSource.cancelled
  /\ dropStatus # "done"
  /\ ~InMenuOverviewMode /\ width # undefined => Tabulated(x2 - width, y2 - height)
  /\ dropColumn' = column
  /\ dropRow' = row
  /\ dropIndex' = index
  /\ motionIndex' = index
  /\ IF threw
     THEN UNCHANGED <<restartAnimation, allocateQueued>>
     ELSE /\ restartAnimation' =
               (\/ restartAnimation
                \/ ~LooseEq(column, dropColumn)
                \/ ~LooseEq(row, dropRow)
                \/ ~LooseEq(index, dropIndex))
          /\ allocateQueued' = TRUE
  /\ dropStatus' = IF Nullish(index) THEN "reject" ELSE "accept"
  /\ emitted' = <<>>
  /\ lastOp' = [Op("motion", x2, IF Nullish(index) THEN "null" ELSE "MOVE", threw)
                  EXCEPT !.at = y2]
  /\ UNCHANGED <<item, items, centerItem, selectedItem, oldItems, lastHideTime,
                 upcomingTransition, transitionAngle, parentAngle, backButton, dragIndex,
                 lastDropIndex, layoutVars, frameTime, frameClock, shortcutVars, achievementVars, tickCallbacks,
                 dragSource, hideTime, calls, passes>>

\* 'leave' on the editor's drop target.
Leave ==
  /\ dropStatus \in {"accept", "reject", "done"}
  /\ lastDropIndex' = dropIndex
  /\ dropColumn' = null
  /\ dropRow' = null
  /\ dropIndex' = null
  /\ restartAnimation' = TRUE
  /\ allocateQueued' = TRUE
  /\ dropStatus' = IF dropStatus = "accept" THEN "left" ELSE "none"
  /\ emitted' = <<>>
  /\ lastOp' = Op("leave", null, "none", FALSE)
  /\ UNCHANGED <<item, items, centerItem, selectedItem, oldItems, lastHideTime,
                 upcomingTransition, transitionAngle, parentAngle, backButton, dragIndex,
                 layoutVars, frameTime, frameClock, shortcutVars, achievementVars, tickCallbacks, dragSource, hideTime,
                 motionIndex, calls, passes>>

\* ItemClass.ACTION and ItemClass.MENU of the registry of item types.
ACTION_CLASS == 0
MENU == 1

\* ItemRegistry.getItemTypes()[type].class for the item types of the model.
ItemClassOf(type) == IF type \in {"CustomMenu", "Bookmarks"} THEN MENU ELSE ACTION_CLASS

\* The insertion index as 'leave' has left it.
CursorIndex == dropIndex

\* The index the 'drop' handler works with: this._dropIndex, or the one
\* 'leave' saved.
CommitIndex == IF Nullish(dropIndex) THEN lastDropIndex ELSE dropIndex

\* A handler that refuses only what comes from outside.
ExternalRefused == InMenuOverviewMode /\ ~InternalDrag

\* The 'drop' handler refuses what cannot become a top-level menu.
DropRefused ==
  /\ InMenuOverviewMode
  /\ InternalDrag => ItemClassOf(item[dragSource.item].config.type) # MENU

\* The 'drop' handler of the editor's drop target.
DropHandler(payload) ==
  /\ dragSource.item # NoItem => ~dragSource.cancelled
  /\ IF Nullish(CommitIndex)
     THEN /\ dropIndex' = CommitIndex
          /\ UNCHANGED <<dropRow, dropColumn>>
          /\ emitted' = <<>>
          /\ lastOp' = Op("drop", null, "false", FALSE)
     ELSE /\ dropColumn' = null
          /\ dropRow' = null
          /\ dropIndex' = null
          /\ IF DropRefused
             THEN /\ emitted' = <<Signal("notification", null)>>
                  /\ lastOp' = Op("drop", CommitIndex, "false", FALSE)
             ELSE /\ emitted' =
                       IF InternalDrag THEN <<Signal("drop-item", CommitIndex)>>
                       ELSE DataSignals("drop-data", payload, CommitIndex, 1, 0)
                  /\ lastOp' = Op("drop", CommitIndex, "true", FALSE)
  /\ dropStatus' = IF dropStatus = "left" THEN "none" ELSE "done"
  /\ UNCHANGED <<item, items, centerItem, selectedItem, oldItems, lastHideTime,
                 restartAnimation, upcomingTransition, transitionAngle, parentAngle,
                 backButton, dragIndex, lastDropIndex, layoutVars, frameTime, frameClock, shortcutVars, achievementVars,
                 tickCallbacks, allocateQueued, dragSource, hideTime, motionIndex, calls, passes>>

\* 'drop' on the editor's drop target. It is delivered where the last motion
\* handler answered with an action, also after a 'leave'.
Drop(payload) ==
  /\ dropStatus \in {"accept", "left"}
  /\ DropHandler(payload)

\* 'drop' where the last motion handler answered with no action: the
\* handler has to decide itself whether the pointer is in a drop zone.
UnresolvedDrop(payload) ==
  /\ dropStatus = "reject"
  /\ DropHandler(payload)

\* ------------------------------------------- the shortcut selection widget

\* The state of the editor, which the shortcut widget does not touch.
menuEditorVars ==
  <<item, editorVars, cursorVars, layoutVars, toolkitVars, emitted, lastOp, hideTime,
    motionIndex, calls, passes>>

\* The keys of the key events: Gdk.KEY_Escape, Gdk.KEY_BackSpace, a letter,
\* the tabulator and a modifier key.
Keyvals == {"Escape", "BackSpace", "a", "Tab", "Control_L"}

\* state & Gtk.accelerator_get_default_mod_mask(): no modifier or Control.
ModifierMasks == {"", "<Control>"}

\* Gtk.accelerator_valid(keyval, mods): a modifier key is no accelerator, and
\* the tabulator is none without a modifier.
AcceleratorValid(keyval, mods) ==
  keyval # "Control_L" /\ (keyval = "Tab" => mods # "")

\* Gtk.accelerator_name(keyval, mods)
AcceleratorName(keyval, mods) == mods \o keyval

\* The accelerators the caller shows with set_accelerator of the returned
\* label.
ShownAccelerators == {"", "<Control>b"}

\* createShortcutLabel(doFullGrabArg, onSelect): the row is appended to the
\* list box, the label shows no accelerator.
CreateShortcutLabel(doFullGrabArg) ==
  /\ ~listBoxRow.parent
  /\ listBoxRow' = [parent |-> TRUE, selected |-> FALSE]
  /\ label' = [accelerator |-> "", disabled_text |-> NOT_BOUND]
  /\ lastAccelerator' = ""
  /\ doFullGrab' = doFullGrabArg
  /\ shortcutOp' = ShortcutOp("createShortcutLabel", "", "", FALSE)
  /\ UNCHANGED <<shortcutsInhibited, onSelectCalls, shownBefore, menuEditorVars, achievementVars>>

\* label.set_accelerator(accelerator), called by the owner of the widget.
SetAccelerator(accelerator) ==
  /\ listBoxRow.parent
  /\ label' = [label EXCEPT !.accelerator = accelerator]
  /\ shortcutOp' = ShortcutOp("set_accelerator", "", "", FALSE)
  /\ UNCHANGED <<listBoxRow, lastAccelerator, doFullGrab, shortcutsInhibited, onSelectCalls,
                 shownBefore, menuEditorVars, achievementVars>>

\* grabKeyboard(): the accelerator that is shown is kept, the label asks for
\* a shortcut.
GrabKeyboard ==
  /\ shortcutsInhibited' = (doFullGrab \/ shortcutsInhibited)
  /\ lastAccelerator' = label.accelerator
  /\ label' = [accelerator |-> "", disabled_text |-> PRESS_THE_SHORTCUT]

\* label.set_accelerator(accelerator) without cancelGrab().
KeepGrab(accelerator) ==
  /\ label' = [label EXCEPT !.accelerator = accelerator]
  /\ UNCHANGED <<listBoxRow, shortcutsInhibited>>

\* label.set_accelerator(accelerator) followed by cancelGrab(): the row is
\* unselected and the label is back to its text.
CancelGrab(accelerator) ==
  /\ shortcutsInhibited' = (~doFullGrab /\ shortcutsInhibited)
  /\ listBoxRow' = [listBoxRow EXCEPT !.selected = FALSE]
  /\ label' = [accelerator |-> accelerator, disabled_text |-> NOT_BOUND]

\* The list box selects the row and emits 'row-activated' (a click on the
\* row that is not selected, or its activation by the keyboard).
RowActivated ==
  /\ listBoxRow.parent
  /\ ~listBoxRow.selected
  /\ listBoxRow' = [listBoxRow EXCEPT !.selected = TRUE]
  /\ GrabKeyboard
  /\ shownBefore' = label.accelerator
  /\ shortcutOp' = ShortcutOp("row-activated", "", "", FALSE)
  /\ UNCHANGED <<doFullGrab, onSelectCalls, menuEditorVars, achievementVars>>

\* 'key-pressed' of the key controller of the row.
KeyPressed(keyval, mods) ==
  /\ listBoxRow.parent
  /\ shortcutOp' = ShortcutOp("key-pressed", keyval, mods, listBoxRow.selected)
  /\ IF ~listBoxRow.selected
     THEN UNCHANGED <<label, listBoxRow, shortcutsInhibited, onSelectCalls>>
     ELSE IF keyval = "Escape"
     THEN CancelGrab(lastAccelerator) /\ UNCHANGED onSelectCalls
     ELSE IF keyval = "BackSpace"
     THEN CancelGrab("") /\ onSelectCalls' = Append(onSelectCalls, "")
     ELSE IF AcceleratorValid(keyval, mods)
     THEN /\ CancelGrab(AcceleratorName(keyval, mods))
          /\ onSelectCalls' = Append(onSelectCalls, AcceleratorName(keyval, mods))
     ELSE UNCHANGED <<label, listBoxRow, shortcutsInhibited, onSelectCalls>>
  /\ UNCHANGED <<lastAccelerator, doFullGrab, shownBefore, menuEditorVars, achievementVars>>

\* What the click and the focus controller do: the selection is cancelled.
CancelSelection ==
  IF listBoxRow.selected
  THEN CancelGrab(lastAccelerator)
  ELSE UNCHANGED <<label, listBoxRow, shortcutsInhibited>>

\* 'pressed' of the click controller of the row.
Pressed ==
  /\ listBoxRow.parent
  /\ CancelSelection
  /\ shortcutOp' = ShortcutOp("pressed", "", "", TRUE)
  /\ UNCHANGED <<lastAccelerator, doFullGrab, onSelectCalls, shownBefore, menuEditorVars, achievementVars>>

\* 'leave' of the focus controller of the row.
FocusLeave ==
  /\ listBoxRow.parent
  /\ CancelSelection
  /\ shortcutOp' = ShortcutOp("leave", "", "", TRUE)
  /\ UNCHANGED <<lastAccelerator, doFullGrab, onSelectCalls, shownBefore, menuEditorVars, achievementVars>>

\* ------------------------------------------------- the achievements page

\* The ids of the achievements of the page.
AchievementIds == 1..Len(activeAchievements)

\* What the last handler of the page was, for which achievement, and how
\* many signals of the tracker the page has handled so far.
AchievementOp(name, id, signals) == [op |-> name, id |-> id, signals |-> signals]

\* revealer.reveal_child = true, whatever is asked for.
RevealAlways(widget, reveal) == [widget EXCEPT !.reveal_child = TRUE]

\* revealer.reveal_child = reveal
Reveal(widget, reveal) == [widget EXCEPT !.reveal_child = reveal]

\* _createAchievementWidget(achievement, id, false): a new Gtk.Revealer does
\* not reveal its child.
ActiveWidget(achievement) == [reveal_child |-> FALSE, progress |-> achievement.progress]

\* _createAchievementWidget(achievement, id, true): the date is the stored
\* one or the current one.
CompletedWidget(achievement) == [reveal_child |-> FALSE, date |-> achievement.date]

\* widgets.sort((a, b) => b.key - a.key || a.name.localeCompare(b.name)): the
\* ids by falling key, those of equal keys by name; the names are in the
\* order of the ids.
SortedIds(keys) ==
  CHOOSE order \in [1..Len(keys) -> 1..Len(keys)] :
    \A i, j \in 1..Len(keys) :
      i < j => \/ keys[order[i]] > keys[order[j]]
               \/ keys[order[i]] = keys[order[j]] /\ order[i] < order[j]

\* _reorderActiveAchievements(): the order of the revealers in the box.
ReorderActiveAchievements(widgets) ==
  SortedIds([id \in 1..Len(widgets) |-> widgets[id].progress])

\* _reorderCompletedAchievements()
ReorderCompletedAchievements(widgets) ==
  SortedIds([id \in 1..Len(widgets) |-> widgets[id].date])

\* _add(achievement, id): the two widgets of an achievement.
AddActive(achievement) == Reveal(ActiveWidget(achievement), achievement.state = "ACTIVE")
AddCompleted(achievement) ==
  Reveal(CompletedWidget(achievement), achievement.state = "COMPLETED")

\* constructor(builder, settings): the widgets of the tracker's achievements
\* are added and the boxes are ordered.
AchievementsPage(achievements) ==
  /\ activeAchievements = <<>>
  /\ achievements # <<>>
  /\ activeAchievements' = [id \in 1..Len(achievements) |-> AddActive(achievements[id])]
  /\ completedAchievements' =
       [id \in 1..Len(achievements) |-> AddCompleted(achievements[id])]
  /\ activeBox' = ReorderActiveAchievements(activeAchievements')
  /\ completedBox' = ReorderCompletedAchievements(completedAchievements')
  /\ achievementOp' = AchievementOp("constructor", 0, 0)
  /\ UNCHANGED <<menuEditorVars, shortcutVars>>

\* _updateProgress(id, cur, max): the progress is cur / max; max is the same
\* for all achievements.
UpdateProgress(id, cur) ==
  /\ id \in AchievementIds
  /\ activeAchievements' = [activeAchievements EXCEPT ![id].progress = cur]
  /\ activeBox' = ReorderActiveAchievements(activeAchievements')
  /\ achievementOp' =
       AchievementOp("achievement-progress-changed", id, achievementOp.signals + 1)
  /\ UNCHANGED <<completedAchievements, completedBox, menuEditorVars, shortcutVars>>

\* _achievementUnlocked(id)
AchievementUnlocked(id) ==
  /\ id \in AchievementIds
  /\ activeAchievements' = [activeAchievements EXCEPT ![id] = Reveal(@, TRUE)]
  /\ completedAchievements' = [completedAchievements EXCEPT ![id] = Reveal(@, FALSE)]
  /\ activeBox' = ReorderActiveAchievements(activeAchievements')
  /\ achievementOp' = AchievementOp("achievement-unlocked", id, achievementOp.signals + 1)
  /\ UNCHANGED <<completedBox, menuEditorVars, shortcutVars>>

\* _achievementLocked(id)
AchievementLocked(id) ==
  /\ id \in AchievementIds
  /\ activeAchievements' = [activeAchievements EXCEPT ![id] = Reveal(@, FALSE)]
  /\ completedAchievements' = [completedAchievements EXCEPT ![id] = Reveal(@, FALSE)]
  /\ achievementOp' = AchievementOp("achievement-locked", id, achievementOp.signals + 1)
  /\ UNCHANGED <<activeBox, completedBox, menuEditorVars, shortcutVars>>

\* _achievementCompleted(id); newDate is new Date().
AchievementCompleted(id, newDate) ==
  /\ id \in AchievementIds
  /\ activeAchievements' = [activeAchievements EXCEPT ![id] = Reveal(@, FALSE)]
  /\ completedAchievements' =
       [completedAchievements EXCEPT ![id] = [Reveal(@, TRUE) EXCEPT !.date = newDate]]
  /\ completedBox' = ReorderCompletedAchievements(completedAchievements')
  /\ achievementOp' = AchievementOp("achievement-completed", id, achievementOp.signals + 1)
  /\ UNCHANGED <<activeBox, menuEditorVars, shortcutVars>>

\* ------------------------------------------------------------------ inputs

\* The menu configurations the collaborator hands over: two custom menus, a
\* menu of another type and three actions.
Catalog ==
  <<Config("menu1", "CustomMenu"), Config("action1", "Shortcut"),
    Config("menu2", "CustomMenu"), Config("menu3", "Bookmarks"),
    Config("action2", "Shortcut"), Config("action3", "Shortcut")>>

\* The lists of at most k configurations amongst the first c of the catalog:
\* the runs of the catalog.
ConfigLists(c, k) ==
  {SubSeq(Catalog, i, j) :
     i \in 1..Min(c, Len(Catalog)), j \in 0..Min(c, Len(Catalog))}
    \cap UNION {[1..m -> {Catalog[e] : e \in 1..Len(Catalog)}] : m \in 0..k}

\* The selected index of a call with n configurations: none, the center (-1)
\* or one of the items.
SelectedIndices(n) == {null} \cup (-1..(n - 1))

\* The center configuration of a call: none or a custom menu.
CenterConfigs == {NoConfig, Catalog[1]}

\* The parent angle of a call: none or an angle.
ParentAngles == {undefined, 90}

\* The size of the minimum request of vfunc_measure: four grid cells.
MinSize == 4 * ItemSizeOf(GRID)

\* --------------------------------------- the transitions between menu levels

\* Longest configuration list of the calls that change the menu level.
MaxLevelConfigs == 1

LevelSetItems ==
  \E configs \in ConfigLists(MaxLevelConfigs, MaxLevelConfigs), centerConfig \in CenterConfigs,
     parentAngleArg \in ParentAngles :
    \E selectedIndex \in SelectedIndices(Len(configs)) :
      SetItems(configs, selectedIndex, centerConfig, parentAngleArg)

LevelSizeAllocate == SizeAllocate(MinSize, MinSize)

Tick == \E id \in tickCallbacks : TickCallback(id)

\* The calls that change the menu level and the layout passes between them.
NextLevels ==
  \/ Realize
  \/ LevelSetItems
  \/ LevelSizeAllocate

SpecLevels == Init /\ [][NextLevels]_vars

\* The calls that change the menu level as the frames go by.
NextFade ==
  \/ Realize
  \/ FrameAdvance
  \/ LevelSetItems

SpecFade == Init /\ [][NextFade]_vars


\* --------------------------------------------------------- drag and drop

\* What the configuration calls show while items are dragged: an action and
\* a custom menu, around a center item or in the overview.
DragConfigs == SubSeq(Catalog, 2, 3)

\* Number of configuration calls of a run with drags.
MaxDragCalls == 2

\* Number of layout passes of a run with drags.
MaxDragPasses == 2

\* The editor shows a custom menu's items, then the overview.
DragSetItems ==
  /\ calls < MaxDragCalls
  /\ SetItems(DragConfigs, null, IF calls = 0 THEN Catalog[1] ELSE NoConfig, undefined)

DragSizeAllocate == passes < MaxDragPasses /\ SizeAllocate(MinSize, MinSize)

\* What is dropped from outside: plain data, a URI list of three lines the
\* second of which is empty, and a URI list of one empty line.
Payloads ==
  {Payload(FALSE, <<TRUE>>), Payload(TRUE, <<TRUE, FALSE, TRUE>>), Payload(TRUE, <<FALSE>>)}

\* The payload of an internal drag is the dragged item's configuration.
NoPayload == Payload(FALSE, <<TRUE>>)

\* The pointer positions (half pixels) in an area of the minimum size: the
\* center, and far above, below and left of it.
Pointers2 ==
  {<<MinSize + RadialOffsets2[p[1]], MinSize + RadialOffsets2[p[2]]>> :
     p \in {<<3, 3>>, <<3, 1>>, <<3, 5>>, <<1, 3>>}}

\* The toolkit delivers pointer events to a widget that is realized and has
\* got its allocation.
Mapped == frameClock /\ width # undefined

DragDragBegin == Mapped /\ \E i \in ItemIds : DragBegin(i)

DragMotion == Mapped /\ \E p \in Pointers2 : Motion(p[1], p[2])

DragDrop ==
  /\ Mapped
  /\ \E payload \in (IF InternalDrag THEN {NoPayload} ELSE Payloads) : Drop(payload)

DragItemDrop ==
  /\ Mapped
  /\ \E i \in ItemIds, payload \in (IF InternalDrag THEN {NoPayload} ELSE Payloads) :
       ItemDrop(i, payload)

NextDrag ==
  \/ Realize
  \/ DragSetItems
  \/ DragSizeAllocate
  \/ DragDragBegin
  \/ \E deleteData \in BOOLEAN : DragEnd(deleteData)
  \/ DragCancel
  \/ DragMotion
  \/ Leave
  \/ DragDrop
  \/ DragItemDrop

SpecDrag == Init /\ [][NextDrag]_vars

\* ---------------------------------------------------------- the selection

\* Number of calls and of layout passes of a run with selections.
MaxSelectCalls == 3
MaxSelectPasses == 1
\* Longest item list of a run with selections.
MaxSelectItems == 3

\* The editor shows nothing or an action and a custom menu, in the overview
\* or around a center item.
SelectSetItems ==
  /\ calls < MaxSelectCalls
  /\ \E configs \in {<<>>, DragConfigs}, centerConfig \in CenterConfigs :
       \E selectedIndex \in SelectedIndices(Len(configs)) :
         SetItems(configs, selectedIndex, centerConfig, undefined)

SelectSizeAllocate == passes < MaxSelectPasses /\ SizeAllocate(MinSize, MinSize)

\* The collaborator adds a custom menu, anywhere in a list of less than
\* MaxSelectItems items.
SelectAdd ==
  /\ calls < MaxSelectCalls
  /\ Len(items) < MaxSelectItems
  /\ \E where \in 0..Len(items) : Add(Catalog[3], where)

\* The collaborator removes an item, the last one (-1) or none (an index
\* behind the list).
SelectRemove == calls < MaxSelectCalls /\ \E which \in -1..Len(items) : Remove(which)

\* What the user does to an item: a click on its button or on its edit
\* button, a drop of a dragged item into it, the begin of a drag and the end
\* of a drag that moved the item away.
SelectClick == Mapped /\ \E i \in ItemIds, staysActive \in BOOLEAN : Click(i, staysActive)
SelectEditClick == Mapped /\ \E i \in ItemIds : EditClick(i)
SelectItemDrop == Mapped /\ \E i \in ItemIds : ItemDrop(i, NoPayload)
SelectDragBegin == DragDragBegin
SelectDragEnd == Mapped /\ DragEnd(TRUE)

NextSelect ==
  \/ Realize
  \/ SelectSetItems
  \/ SelectSizeAllocate
  \/ SelectAdd
  \/ SelectRemove
  \/ SelectClick
  \/ SelectEditClick
  \/ SelectItemDrop
  \/ SelectDragBegin
  \/ SelectDragEnd

SpecSelect == Init /\ [][NextSelect]_vars

\* ------------------------------------------------------------ the overview

\* Number of setItems calls and of layout passes of a run in the overview.
MaxGridCalls == 1
MaxGridPasses == 1

\* The overview shows the first n menus of the catalog.
GridSetItems ==
  /\ calls < MaxGridCalls
  /\ \E n \in 0..Min(MaxConfigs, Len(Catalog)) :
       SetItems(SubSeq(Catalog, 1, n), null, NoConfig, undefined)

\* The allocations: the minimum size, and wider or higher in steps of half a
\* cell.
GridSizes == {MinSize + k * (ItemSizeOf(GRID) \div 2) : k \in 0..(2 * MaxExtraColumns)}

GridSizeAllocate ==
  /\ passes < MaxGridPasses
  /\ \E w \in GridSizes, h \in {MinSize, MinSize + ItemSizeOf(GRID) \div 2} : SizeAllocate(w, h)

\* The pointer positions (half pixels): on, just before and just behind
\* multiples of a quarter of a cell, at the upper and at the lower edge.
GridPointersX2 ==
  {k * (ItemSizeOf(GRID) \div 2) + d : k \in {0, 3, 5, 6, 16}, d \in {0, 1, 64}}
GridPointersY2 == {0, 2 * MinSize}

GridMotion ==
  /\ Mapped
  /\ \E x2 \in GridPointersX2, y2 \in GridPointersY2 : Motion(x2, y2)

NextGrid ==
  \/ Realize
  \/ GridSetItems
  \/ GridSizeAllocate
  \/ GridMotion

SpecGrid == Init /\ [][NextGrid]_vars

\* ------------------------------------------------ drags over an edited menu

\* The custom menu that is edited: the center item.
Hub == Config("hub", "CustomMenu")

\* An action the user pinned to the bottom of the menu.
Pinned == [Config("pinned", "Shortcut") EXCEPT !.angle = 180]

\* The item lists of the edited menu: none, one free or pinned action, two,
\* three and four items (without and with a custom menu) and six items.
RadialLists ==
  {<<>>, <<Pinned>>, SubSeq(Catalog, 2, 2), DragConfigs,
   <<Catalog[2], Catalog[4], Catalog[5]>>, SubSeq(Catalog, 2, 4),
   <<Catalog[2], Catalog[4], Catalog[5], Catalog[6]>>, SubSeq(Catalog, 2, 5), Catalog}

\* Number of configuration calls and of layout passes of such a run.
MaxRadialCalls == 1
MaxRadialPasses == 1

\* The editor shows the items of a custom menu, at the top level or one level
\* below it.
RadialSetItems ==
  /\ calls < MaxRadialCalls
  /\ \E configs \in RadialLists, parentAngleArg \in ParentAngles :
       SetItems(configs, null, Hub, parentAngleArg)

RadialSizeAllocate == passes < MaxRadialPasses /\ SizeAllocate(MinSize, MinSize)

RadialDragBegin == Mapped /\ \E i \in ItemIds : DragBegin(i)

\* The pointer is at one of the tabulated offsets from the center.
MotionAt(dx2, dy2) == Motion(width + dx2, height + dy2)

\* The pointer offsets of a drag: sixteen directions far from the center,
\* and the center, a point in the hub and two points on the hub's edge.
RadialOffsets ==
  {<<dx2, dy2>> : dx2 \in {-400, 400}, dy2 \in {-400, -100, 0, 100, 400}}
    \cup {<<dx2, dy2>> : dx2 \in {-100, 0, 100}, dy2 \in {-400, 400}}
    \cup {<<0, 0>>, <<100, 0>>, <<120, 0>>, <<0, 120>>}

RadialMotion == Mapped /\ \E d2 \in RadialOffsets : MotionAt(d2[1], d2[2])

NextRadial ==
  \/ Realize
  \/ RadialSetItems
  \/ RadialSizeAllocate
  \/ RadialDragBegin
  \/ RadialMotion
  \/ Leave

SpecRadial == Init /\ [][NextRadial]_vars

\* ---------------------------------------------------------- the animations

\* Number of frames and of configuration calls of a run that watches the
\* animations.
MaxAnimFrames == 3
MaxAnimCalls == 2

\* The sizes the toolkit gives the editor: the minimum request and one grid
\* cell more in each direction.
AnimSizes == {MinSize, MinSize + ItemSizeOf(GRID)}

\* The frame clock moves on; a run watches MaxAnimFrames frames.
AnimFrameAdvance ==
  /\ frameClock
  /\ frameTime < MaxAnimFrames * FrameMillis * 1000
  /\ frameTime' = frameTime + FrameMillis * 1000
  /\ UNCHANGED <<item, editorVars, cursorVars, layoutVars, frameClock, shortcutVars, achievementVars, tickCallbacks,
                 allocateQueued, dragSource, dropStatus, emitted, lastOp, hideTime, motionIndex, calls, passes>>

\* An item list with a custom menu, at the top level, in the overview or one
\* level down; the second call may select the center.
AnimSetItems ==
  /\ calls < MaxAnimCalls
  /\ \E centerConfig \in CenterConfigs, parentAngleArg \in ParentAngles,
        selectedIndex \in {null, -1} :
       SetItems(SubSeq(Catalog, 1, 1), selectedIndex, centerConfig, parentAngleArg)

\* A layout pass whose animations end within the frames the run watches.
AnimSizeAllocate ==
  /\ frameTime + TRANSITION_DURATION * 1000 <= MaxAnimFrames * FrameMillis * 1000
  /\ \E size \in AnimSizes : SizeAllocate(size, MinSize)

NextAnim ==
  \/ Realize
  \/ AnimFrameAdvance
  \/ AnimSetItems
  \/ AnimSizeAllocate
  \/ UpdateLayout
  \/ Tick

SpecAnim == Init /\ [][NextAnim]_vars

\* The frame clock keeps running and calls every registered tick callback at
\* each frame.
SpecAnimFair == SpecAnim /\ WF_vars(AnimFrameAdvance) /\ WF_vars(Tick)

\* ------------------------------------------------------- repeated calls

\* Number of configuration calls of a run that repeats calls.
MaxRepeatCalls == 2

\* What the repeated calls show: nothing, a pinned action, an action and a
\* custom menu, three items, or the catalog's first menu alone.
RepeatLists ==
  {<<>>, <<Pinned>>, DragConfigs, SubSeq(Catalog, 2, 4), SubSeq(Catalog, 1, 1)}

\* The overview, or a menu around the hub or around the catalog's first menu.
RepeatCenters == {NoConfig, Hub, Catalog[1]}

RepeatSetItems ==
  /\ calls < MaxRepeatCalls
  /\ \E configs \in RepeatLists, centerConfig \in RepeatCenters,
        parentAngleArg \in ParentAngles :
       SetItems(configs, null, centerConfig, parentAngleArg)

RepeatSizeAllocate == \E size \in AnimSizes : SizeAllocate(size, MinSize)

NextRepeat ==
  \/ Realize
  \/ RepeatSetItems
  \/ RepeatSizeAllocate

SpecRepeat == Init /\ [][NextRepeat]_vars

\* ------------------------------------------- making room in the overview

\* Number of setItems calls and of layout passes of such a run.
MaxShiftCalls == 1
MaxShiftPasses == 2

\* The overview shows one, five or six menus ...
ShiftSetItems ==
  /\ calls < MaxShiftCalls
  /\ \E n \in {1, 5, 6} : SetItems(SubSeq(Catalog, 1, n), null, NoConfig, undefined)

\* ... in four columns or in one row of six.
ShiftSizeAllocate ==
  /\ passes < MaxShiftPasses
  /\ \E w \in {MinSize, 6 * ItemSizeOf(GRID)} : SizeAllocate(w, MinSize)

\* The pointer positions (half pixels): in the middle of the first cell and
\* on the edges of the cells; at the upper edge and below the first row.
ShiftPointersX2 == {ItemSizeOf(GRID)} \cup {2 * k * ItemSizeOf(GRID) : k \in 0..6}
ShiftPointersY2 == {0, 5 * ItemSizeOf(GRID)}

ShiftMotion ==
  /\ Mapped
  /\ \E x2 \in ShiftPointersX2, y2 \in ShiftPointersY2 : Motion(x2, y2)

NextShift ==
  \/ Realize
  \/ ShiftSetItems
  \/ ShiftSizeAllocate
  \/ ShiftMotion
  \/ Leave

SpecShift == Init /\ [][NextShift]_vars

\* ------------------------------------------- into a menu and back again

\* Number of setItems calls and of layout passes of such a run.
MaxReturnCalls == 3
MaxReturnPasses == 3

\* The collaborator shows the overview of an action and a menu, the menu
\* selected or not, or the one child of that menu around it, the center
\* selected or not.
ReturnSetItems ==
  /\ calls < MaxReturnCalls
  /\ \/ \E selectedIndex \in {null, 1} :
          SetItems(DragConfigs, selectedIndex, NoConfig, undefined)
     \/ \E selectedIndex \in {null, -1} :
          SetItems(<<Catalog[5]>>, selectedIndex, Catalog[3], undefined)

ReturnSizeAllocate == passes < MaxReturnPasses /\ SizeAllocate(MinSize, MinSize)

NextReturn ==
  \/ Realize
  \/ FrameAdvance
  \/ ReturnSetItems
  \/ ReturnSizeAllocate

SpecReturn == Init /\ [][NextReturn]_vars

\* ------------------------------------------------- selecting a shortcut

\* Number of onSelect calls of a run.
MaxOnSelectCalls == 2

\* A shortcut widget is created, with or without full grab; its owner shows
\* accelerators in it, and the user activates the row, presses keys and the
\* mouse button and moves the focus away.
ShortcutCreate == \E doFullGrabArg \in BOOLEAN : CreateShortcutLabel(doFullGrabArg)
ShortcutSetAccelerator == \E accelerator \in ShownAccelerators : SetAccelerator(accelerator)
ShortcutKeyPressed ==
  /\ Len(onSelectCalls) < MaxOnSelectCalls
  /\ \E keyval \in Keyvals, mods \in ModifierMasks : KeyPressed(keyval, mods)

NextShortcut ==
  \/ ShortcutCreate
  \/ ShortcutSetAccelerator
  \/ RowActivated
  \/ ShortcutKeyPressed
  \/ Pressed
  \/ FocusLeave

SpecShortcut == Init /\ [][NextShortcut]_vars

\* ------------------------------------------------------------------ claims

\* A step that is a call of setItems.
SetItemsStep == lastOp'.op = "setItems" /\ calls' = calls + 1

\* C1: a setItems call made while the editor has no center item, with a
\* center config and no parent angle, sets the pending transition to kind A;
\* one made while the editor has a center item and no parent angle, with no
\* center config, sets it to kind B, whatever the lists and the selected
\* index are.
C1_OverviewAndTopLevel ==
  [][SetItemsStep =>
       /\ (centerItem = NoItem /\ centerItem' # NoItem /\ Nullish(parentAngle'))
            => upcomingTransition' = TRANSITION_A
       /\ (centerItem # NoItem /\ Nullish(parentAngle) /\ centerItem' = NoItem)
            => upcomingTransition' = TRANSITION_B]_vars

\* A call from a top-level menu back to the overview that also hands over a
\* parent angle has been classified B.
C1_Witness ==
  /\ lastOp.op = "setItems"
  /\ upcomingTransition = TRANSITION_B
  /\ centerItem = NoItem
  /\ ~Nullish(parentAngle)

\* C2: the transition a setItems call leaves pending is consumed by the next
\* layout pass: when a pass has ended, no transition is pending.
C2_ConsumedByNextPass ==
  lastOp.op = "vfunc_size_allocate" => upcomingTransition = NONE

\* C3: an item superseded by a setItems call at frame time t leaves the
\* old-items list only in a setItems call at least one TRANSITION_DURATION
\* (in microseconds, the unit of the frame time) after t.
C3_KeptDuringFade ==
  [][\A i \in ItemIds :
       InSeq(i, oldItems) /\ ~InSeq(i, oldItems')
         => frameTime >= hideTime[i] + TRANSITION_DURATION * 1000]_vars

\* Steps of the handlers of the drop targets and of 'drag-cancel'.
DropStep == lastOp'.op = "drop"
ItemDropStep == lastOp'.op = "item-drop"
CancelStep == lastOp'.op = "drag-cancel" /\ dragSource'.cancelled /\ ~dragSource.cancelled

\* The signals of a handler are all of one kind and carry the index base,
\* line i of a URI list carrying base + step * i.
AllSignals(signals, kind, base, step) ==
  \A k \in 1..Len(signals) :
    signals[k].sig = kind /\ signals[k].index = base + step * signals[k].line

\* C4: in the event order motion (resolving the insertion index k), leave,
\* drop, the drop handler works at index k although leave has reset the
\* cursor's insertion index: it does not give up, and every 'drop-item' and
\* 'drop-data' signal it emits carries k (line i of a URI list k + i).
C4_DropAfterLeave ==
  [][DropStep /\ dropStatus = "left"
       => /\ Nullish(dropIndex)
          /\ ~Nullish(motionIndex)
          /\ lastOp'.arg = motionIndex
          /\ \A k \in 1..Len(emitted') :
               emitted'[k].sig \in {"drop-item", "drop-data"}
                 => emitted'[k].index = motionIndex + emitted'[k].line]_vars

\* A drop after a leave has emitted 'drop-data' for the index, not the first
\* one, the last motion resolved.
C4_Witness ==
  /\ lastOp.op = "drop"
  /\ dropStatus = "none"
  /\ lastOp.ret = "true"
  /\ motionIndex > 0
  /\ Len(emitted) > 0
  /\ emitted[1].sig = "drop-data"
  /\ emitted[1].index = motionIndex

\* C5 (amended): the 'drag-cancel' handler gives the dragged item its full
\* opacity and its sensitivity back and clears the dragged index; it leaves
\* the insertion index, the grid row and the grid column as they are.
C5_CancelRestoresItem ==
  [][CancelStep
       => /\ item'[dragSource.item].opacity = 100
          /\ item'[dragSource.item].sensitive
          /\ dragIndex' = null
          /\ UNCHANGED <<dropIndex, dropRow, dropColumn>>]_vars

\* A drag was cancelled over the editor, after a motion that had resolved an
\* insertion index.
C5_Witness ==
  /\ lastOp.op = "drag-cancel"
  /\ ~Nullish(dropIndex)
  /\ item[dragSource.item].opacity = 100
  /\ item[dragSource.item].sensitive
  /\ dragIndex = null

\* C5 as stated: after 'drag-cancel' the dragged index, the insertion index,
\* the grid row and the grid column are all null.
C5_AllCursorStateCleared ==
  lastOp.op = "drag-cancel"
    => /\ item[dragSource.item].opacity = 100
       /\ item[dragSource.item].sensitive
       /\ dragIndex = null
       /\ dropIndex = null
       /\ dropRow = null
       /\ dropColumn = null

\* C7: in overview mode the drop of external data, and the drop of an
\* internal item whose type is not of the menu class, is refused: the handler
\* returns false, emits one 'notification' and nothing else, leaves the item
\* list as it is and resets the insertion index, grid row and grid column.
C7_RefusedInOverview ==
  [][DropStep /\ InMenuOverviewMode
       /\ (InternalDrag => ItemClassOf(item[dragSource.item].config.type) # MENU)
       => /\ lastOp'.ret = "false"
          /\ Len(emitted') = 1
          /\ emitted'[1].sig = "notification"
          /\ items' = items
          /\ dropIndex' = null
          /\ dropRow' = null
          /\ dropColumn' = null]_vars

\* The drop of a dragged action on the overview has been refused.
C7_Witness ==
  /\ lastOp.op = "drop"
  /\ lastOp.ret = "false"
  /\ InMenuOverviewMode
  /\ InternalDrag
  /\ item[dragSource.item].config.type = "Shortcut"
  /\ Len(emitted) = 1
  /\ emitted[1].sig = "notification"
  /\ dropIndex = null

C6_SelectionInvariant ==
  /\ centerItem # NoItem => ~InSeq(centerItem, items)
  /\ \/ selectedItem = NoItem
     \/ selectedItem = centerItem
     \/ InSeq(selectedItem, items)

\* A removal has left the selection on another item of the list, whilst
\* superseded items are still around.
C6_Witness ==
  /\ lastOp.op = "remove"
  /\ ~lastOp.threw
  /\ oldItems # <<>>
  /\ selectedItem # NoItem
  /\ InSeq(selectedItem, items)

\* What the pass computes for n items in an area of width w: the number of
\* columns that fit, the rows they need, and the columns the grid has.
FitColumns == width \div 130
NeededRows == (Len(items) + FitColumns - 1) \div FitColumns
UsedColumns == IF NeededRows = 1 THEN Len(items) ELSE FitColumns

\* The items are at their cells of a grid of the given columns, row-major
\* (positions in half pixels, a cell being 130 pixels wide and high).
PlacedInGrid(columns) ==
  \A i \in 0..(Len(items) - 1) :
    /\ item[items[i + 1]].x.end = gridOffsetX2 + 260 * (i % columns)
    /\ item[items[i + 1]].y.end = gridOffsetY2 + 260 * (i \div columns)

\* A layout pass in overview mode has ended, no drop cursor being set.
OverviewPassDone ==
  /\ lastOp.op = "vfunc_size_allocate"
  /\ InMenuOverviewMode
  /\ Nullish(dropRow)

\* C9 (amended): in overview mode the layout uses ceil(n / floor(W / cell))
\* rows and floor(W / cell) columns, but n columns when that is a single
\* row; it places item i at column i mod columns and row floor(i / columns)
\* and centers the grid with the offsets (W - columns * cell) / 2 and
\* (H - rows * cell) / 2; 0 items give 0 rows, 5 items in 4 columns 2 rows.
C9_GridLayout ==
  OverviewPassDone
    => /\ rowCount = NeededRows
       /\ columnCount = UsedColumns
       /\ gridOffsetX2 = width - UsedColumns * 130
       /\ gridOffsetY2 = height - NeededRows * 130
       /\ Len(items) > 0 => PlacedInGrid(UsedColumns)
       /\ Len(items) = 0 => rowCount = 0

\* Five items have been laid out in four columns and two rows, the fifth at
\* the begin of the second row.
C9_Witness ==
  /\ OverviewPassDone
  /\ Len(items) = 5
  /\ columnCount = 4
  /\ rowCount = 2
  /\ item[items[5]].x.end = gridOffsetX2
  /\ item[items[5]].y.end = gridOffsetY2 + 260

\* C9 as stated: the layout always uses floor(W / cell) columns.
C9_FloorColumnsAlways ==
  OverviewPassDone
    => /\ columnCount = FitColumns
       /\ rowCount = NeededRows
       /\ gridOffsetX2 = width - FitColumns * 130
       /\ gridOffsetY2 = height - NeededRows * 130
       /\ Len(items) > 0 => PlacedInGrid(FitColumns)

\* A step of the 'motion' handler in overview mode, after a layout pass.
GridMotionStep ==
  /\ lastOp'.op = "motion"
  /\ InMenuOverviewMode
  /\ gridOffsetX2 # undefined

\* The pointer's x (half pixels) of the motion of this step, relative to the
\* grid and clamped to it, and its distance from the cell boundary before it.
ClampedPointerX2 == Max(0, Min(columnCount * 260, lastOp'.arg - gridOffsetX2))
BoundaryDistance2 == ClampedPointerX2 % 260
NearBoundary == BoundaryDistance2 < 65 \/ BoundaryDistance2 > 195

\* C10: in overview mode a motion resolves an insertion index exactly when
\* the pointer's x, clamped into the grid, is within a quarter of a cell of
\* a cell boundary; otherwise insertion index, grid row and grid column are
\* null. A resolved index is min(n, columns * row + column) and in 0..n.
C10_GridMotion ==
  [][GridMotionStep
       => /\ NearBoundary <=> ~Nullish(dropIndex')
          /\ ~NearBoundary => dropIndex' = null /\ dropRow' = null /\ dropColumn' = null
          /\ NearBoundary
               => /\ dropIndex' = Min(Len(items), columnCount * dropRow' + dropColumn')
                  /\ dropIndex' \in 0..Len(items)]_vars

\* A motion in the second row of a grid of five items has resolved the index
\* behind the last item, the cell being further right.
C10_Witness ==
  /\ lastOp.op = "motion"
  /\ InMenuOverviewMode
  /\ Len(items) = 5
  /\ dropIndex = 5
  /\ columnCount * dropRow + dropColumn > 5

\* ------------------------------------------------ claims: the radial cursor

\* The pointer is at most half the center item's size from the center.
WithinHub(d2) == d2[1] * d2[1] + d2[2] * d2[2] <= ItemSizeOf(CENTER) * ItemSizeOf(CENTER)

\* A motion event in menu edit mode, and the offset of its pointer from the
\* center of the widget.
RadialMotionStep == lastOp'.op = "motion" /\ ~InMenuOverviewMode

PointerOffset == <<lastOp'.arg - width, lastOp'.at - height>>

\* C11: in radial mode a motion event whose pointer is within the hub never
\* resolves an insertion index, whatever the items are, and with no item
\* every pointer outside the hub resolves to index 0.
C11_HubNeverResolves ==
  [][RadialMotionStep =>
       /\ WithinHub(PointerOffset) => dropIndex' = null
       /\ ~WithinHub(PointerOffset) /\ Len(items) = 0 => dropIndex' = 0]_vars

\* A motion on the edge of the hub of a menu with items resolved nothing.
C11_Witness ==
  /\ lastOp.op = "motion"
  /\ lastOp.arg = width + ItemSizeOf(CENTER)
  /\ lastOp.at = height
  /\ ~InMenuOverviewMode
  /\ Len(items) > 0
  /\ dropIndex = null
  /\ lastOp.ret = "null"

\* The angle of the pointer of a motion event, in 1/200 degree.
PointerAngle == MouseAngle(PointerOffset[1], PointerOffset[2])

\* The angular distance between the pointer and an item at the given angle (in
\* degrees), across the 0/360 wrap, in 1/200 degree.
AngularDistance(mouse, angle) ==
  Min((mouse - 200 * angle) % (200 * 360), (200 * angle - mouse) % (200 * 360))

\* The index the 90 degree rule gives a pointer next to an item at the given
\* angle: before within 90 degrees of it, on either side, and after beyond.
\* Exactly 90 degrees away the index the handler resolved is taken.
ByProximity(mouse, angle, before, after, resolved) ==
  IF AngularDistance(mouse, angle) < 200 * 90 THEN before
  ELSE IF AngularDistance(mouse, angle) > 200 * 90 THEN after
  ELSE resolved

\* C12: in radial mode with exactly one item, the index is 0 if that item is
\* dragged; otherwise it is 0 for a pointer less than 90 degrees away from the
\* item's angle, on either side, and 1 for a pointer more than 90 degrees
\* away (1 exactly opposite the item, 0 at 45 degrees from it).
C12_OneItemByProximity ==
  [][RadialMotionStep /\ Len(items) = 1 /\ ~WithinHub(PointerOffset) =>
       dropIndex' =
         IF dragIndex # null THEN 0
         ELSE ByProximity(PointerAngle, ComputeItemAngles(null)[1], 0, 1, dropIndex')]_vars

\* C13: in radial mode with exactly two items of which one is dragged, a
\* pointer outside the hub resolves to index 0 when it is less than 90
\* degrees away from the remaining item's angle and to index 2 when it is more
\* than 90 degrees away; index 1 is never resolved.
C13_TwoItemsOneDragged ==
  [][RadialMotionStep /\ Len(items) = 2 /\ dragIndex \in {0, 1}
       /\ ~WithinHub(PointerOffset) =>
       /\ dropIndex' # 1
       /\ dropIndex' =
            ByProximity(PointerAngle, ComputeItemAngles(null)[1], 0, 2, dropIndex')]_vars

\* The pointer is strictly between the angles from and to (degrees), going
\* clockwise from the one to the other.
InsideArc(mouse, from, to) ==
  /\ (mouse - 200 * from) % (200 * 360) > 0
  /\ (mouse - 200 * from) % (200 * 360) < (200 * (to - from)) % (200 * 360)

\* The pointer is in the half of that arc that is next to from, or next to to.
InHalfNextTo(mouse, from, to, atStart) ==
  /\ InsideArc(mouse, from, to)
  /\ IF atStart
     THEN 2 * ((mouse - 200 * from) % (200 * 360)) < (200 * (to - from)) % (200 * 360)
     ELSE 2 * ((mouse - 200 * from) % (200 * 360)) > (200 * (to - from)) % (200 * 360)

NoCustomMenu == \A i \in 1..Len(items) : item[items[i]].config.type # "CustomMenu"

\* The angle of the pointer of the last motion event.
PointerOfLast == MouseAngle(lastOp.arg - width, lastOp.at - height)

\* What C14 says of a pointer at the angle mouse, the n items being at angles.
WedgeIndexIs(index, mouse, angles, n) ==
  /\ \A i \in 1..(n - 1) : InsideArc(mouse, angles[i], angles[i + 1]) => index = i
  /\ InHalfNextTo(mouse, angles[n], angles[1], TRUE) => index = n
  /\ InHalfNextTo(mouse, angles[n], angles[1], FALSE) => index = 0

\* C14: in radial mode with three or more items, none a custom menu, every
\* pointer outside the hub resolves to an index in 0..n; when nothing of the
\* menu is dragged, a pointer inside the wedge between items i and i+1
\* resolves to i+1, and in the wedge from the last item back to the first a
\* pointer in the half next to the last item resolves to n (after the last)
\* and one in the half next to the first item to 0.
C14_WedgeIndices ==
  [][RadialMotionStep /\ Len(items) >= 3 /\ NoCustomMenu /\ ~WithinHub(PointerOffset) =>
       /\ dropIndex' \in 0..Len(items)
       /\ dragIndex = null =>
            WedgeIndexIs(dropIndex', PointerAngle, ComputeItemAngles(null), Len(items))]_vars

\* A pointer a little left of the top, between the last and the first of four
\* actions, resolved to index 0.
C14_Witness ==
  /\ lastOp.op = "motion"
  /\ ~InMenuOverviewMode
  /\ Len(items) = 4
  /\ NoCustomMenu
  /\ dragIndex = null
  /\ lastOp.arg = width - 100
  /\ lastOp.at = height - 400
  /\ InHalfNextTo(PointerOfLast, ComputeItemAngles(null)[4], ComputeItemAngles(null)[1], FALSE)
  /\ dropIndex = 0

\* The items that are not dragged, and their angles.
RemainingItems == IF dragIndex = null THEN items ELSE SpliceRemove(items, dragIndex)

RemainingAngles == UtilsComputeItemAngles(FixedAngles(null), parentAngle)

IsCustomMenu(id) == item[id].config.type = "CustomMenu"

\* How far the pointer is into the wedge that starts at the angle from, and
\* the width of the wedge that ends at the angle to, in 1/200 degree.
IntoWedge(mouse, from) == (mouse - 200 * from) % (200 * 360)

WedgeWidth(from, to) == (200 * (to - from)) % (200 * 360)

\* The pointer is in the wedge between the remaining items i and next, within
\* a quarter of its width from one of them that is a custom menu.
InPadding(mouse, rest, angles, i, next) ==
  /\ IntoWedge(mouse, angles[i]) < WedgeWidth(angles[i], angles[next])
  /\ \/ /\ IsCustomMenu(rest[i])
        /\ 4 * IntoWedge(mouse, angles[i]) < WedgeWidth(angles[i], angles[next])
     \/ /\ IsCustomMenu(rest[next])
        /\ 4 * IntoWedge(mouse, angles[i]) > 3 * WedgeWidth(angles[i], angles[next])

\* The pointer is in that wedge, more than a quarter of its width away from
\* each custom menu that bounds it.
BeyondPadding(mouse, rest, angles, i, next) ==
  /\ IntoWedge(mouse, angles[i]) < WedgeWidth(angles[i], angles[next])
  /\ IsCustomMenu(rest[i]) \/ IsCustomMenu(rest[next])
  /\ IsCustomMenu(rest[i]) =>
       4 * IntoWedge(mouse, angles[i]) > WedgeWidth(angles[i], angles[next])
  /\ IsCustomMenu(rest[next]) =>
       4 * IntoWedge(mouse, angles[i]) < 3 * WedgeWidth(angles[i], angles[next])

\* What C15 says of the index resolved for a pointer at the angle mouse, the
\* items rest being at angles: nothing in the padding next to a custom menu
\* and, when nothing is dragged, the index of the wedge beyond it.
PaddingRespected(index, mouse, rest, angles) ==
  \A i \in 1..Len(rest) :
    /\ InPadding(mouse, rest, angles, i, (i % Len(rest)) + 1) => index = null
    /\ dragIndex = null /\ BeyondPadding(mouse, rest, angles, i, (i % Len(rest)) + 1) =>
         WedgeIndexIs(index, mouse, angles, Len(rest))

\* C15: in radial mode with three or more items, a pointer within a quarter
\* of a wedge's width from a custom menu that bounds the wedge resolves to no
\* index, also while another item is dragged (the wedges then lie between the
\* items that remain); beyond the padding it resolves to the wedge's index.
C15_PaddingAtCustomMenus ==
  [][RadialMotionStep /\ Len(items) >= 3 /\ ~WithinHub(PointerOffset) =>
       PaddingRespected(dropIndex', PointerAngle, RemainingItems, RemainingAngles)]_vars

\* C15 while nothing of the menu is dragged.
C15_PaddingWithoutDrag ==
  [][RadialMotionStep /\ Len(items) >= 3 /\ ~WithinHub(PointerOffset) /\ dragIndex = null =>
       PaddingRespected(dropIndex', PointerAngle, items, ComputeItemAngles(null))]_vars

\* ------------------------------------------- claims: the angles of the items

\* The dragged index is null or that of an item, the insertion index null or
\* at most the number of items: what drag-begin and motion produce.
CursorOnMenu ==
  /\ ~InMenuOverviewMode
  /\ Len(items) >= 1
  /\ dragIndex = null \/ dragIndex \in 0..(Len(items) - 1)
  /\ Nullish(dropIndex) \/ dropIndex \in 0..Len(items)

IsAngle(a) == a \in 0..359

\* C16: _computeItemAngles returns one entry per current item for every item
\* count n >= 1, dragged index and insertion index the handlers produce, and
\* every entry is a defined angle.
C16_OneDefinedAnglePerItem ==
  CursorOnMenu =>
    /\ Len(ComputeItemAngles(dropIndex)) = Len(items)
    /\ \A i \in 1..Len(items) : IsAngle(ComputeItemAngles(dropIndex)[i])

\* The angles the solver gives the list of the items that are not dragged.
AnglesOfRemaining ==
  UtilsComputeItemAngles([i \in 1..Len(RemainingItems) |->
                            FixedAngleOf(item[RemainingItems[i]].config)], parentAngle)

\* C17: while item d of n is dragged and no insertion index is set, the other
\* items get the angles the solver gives a list of n-1 items, in order, and
\* the dragged item carries the angle of its successor; of 6 free items
\* without parent angle, the third being dragged, the other 5 are 72 degrees
\* apart.
C17_DraggedItemLeftOut ==
  CursorOnMenu /\ dragIndex # null /\ Nullish(dropIndex) =>
    /\ SpliceRemove(ComputeItemAngles(dropIndex), dragIndex) = AnglesOfRemaining
    /\ ComputeItemAngles(dropIndex)[dragIndex + 1]
         = ComputeItemAngles(dropIndex)[((dragIndex + 1) % Len(items)) + 1]
    /\ Len(items) = 6 /\ dragIndex = 2 /\ Nullish(parentAngle) =>
         \A i \in 1..4 : AnglesOfRemaining[i + 1] - AnglesOfRemaining[i] = 72

\* The third of six items is dragged: it is drawn where the fourth is.
C17_Witness ==
  /\ lastOp.op = "drag-begin"
  /\ ~InMenuOverviewMode
  /\ Len(items) = 6
  /\ dragIndex = 2
  /\ Nullish(parentAngle)
  /\ dropIndex = null
  /\ ComputeItemAngles(dropIndex) = <<0, 72, 144, 144, 216, 288>>

\* ------------------------------------------------- claims: the animation

\* The step changes the insertion index, the grid row or the grid column.
CursorChanges ==
  \/ ~LooseEq(dropIndex', dropIndex)
  \/ ~LooseEq(dropRow', dropRow)
  \/ ~LooseEq(dropColumn', dropColumn)

\* A motion event, a leave event or a rejected drop of a dragged item that ran
\* to its end. (An accepted drop leaves the request to the add() call of
\* whoever receives its signal, and data from outside leaves the widget
\* before it is dropped.)
CursorEventStep ==
  /\ ~lastOp'.threw
  /\ \/ lastOp'.op \in {"motion", "leave"}
     \/ lastOp'.op = "drop" /\ lastOp'.ret = "false" /\ InternalDrag

\* C18: every motion event, leave event and rejected drop that changes the
\* insertion index, the grid row or the grid column of the drag cursor
\* requests a layout pass with the animation-restart flag set.
C18_CursorChangeRestartsLayout ==
  [][CursorEventStep /\ CursorChanges => restartAnimation' /\ allocateQueued']_vars

\* C18 for motion and leave events only.
C18_MotionAndLeaveRestartLayout ==
  [][lastOp'.op \in {"motion", "leave"} /\ ~lastOp'.threw /\ CursorChanges =>
       restartAnimation' /\ allocateQueued']_vars

\* A layout pass.
LayoutStep == passes' = passes + 1 /\ lastOp'.op = "vfunc_size_allocate"

\* The time of the pass (milliseconds).
PassTime == frameTime \div 1000

\* The animated value b restarts the animated value a at time.
Restarted(a, b, time) ==
  /\ b.start = Get(a, time)
  /\ b.startTime = time
  /\ b.endTime = time + TRANSITION_DURATION

\* The animated value b is the animated value a with another target.
Retargeted(a, b) ==
  /\ b.start = a.start
  /\ b.startTime = a.startTime
  /\ b.endTime = a.endTime

\* What the pass does to a, b being the result, with the flag as it is
\* before the pass.
Reanimated(a, b) ==
  IF restartAnimation THEN Restarted(a, b, PassTime) ELSE Retargeted(a, b)

\* The target (half pixels) the pass computes for the current item or center
\* item id in an area of w x h.
TargetOf(id, w, h) ==
  LET size == ItemSizeOf(item[id].state)
      i == IndexOf(items, id)
      angles == ComputeItemAngles(dropIndex)
      angle == IF i < Len(angles) THEN angles[i + 1] ELSE undefined
  IN  IF ~InSeq(id, items) THEN <<CenterX2(w, size), CenterY2(h, size)>>
      ELSE IF InMenuOverviewMode
      THEN <<GridX2(w, Len(items), i), GridY2(w, h, Len(items), i)>>
      ELSE <<RadialX2(w, angle, size), RadialY2(h, angle, size)>>

\* The current items and the center item that have animated positions.
Positioned == {id \in ItemIds : (InSeq(id, items) \/ id = centerItem) /\ item[id].x.def}

\* C19: a layout pass with the restart flag set gives every item that
\* already has animated positions its interpolated position at the time of the
\* pass as start, the newly computed target as end and the window from the
\* time of the pass to TRANSITION_DURATION later; a pass without the flag
\* leaves start and window as they are and replaces the end only.
C19_RestartFromCurrentPosition ==
  [][LayoutStep =>
       \A id \in Positioned :
         /\ Reanimated(item[id].x, item'[id].x)
         /\ Reanimated(item[id].y, item'[id].y)
         /\ <<item'[id].x.end, item'[id].y.end>> = TargetOf(id, width', height')]_vars

\* C19 for the passes that find no slide (transition C or D) pending.
C19_RestartWithoutPendingSlide ==
  [][LayoutStep /\ upcomingTransition \notin {TRANSITION_C, TRANSITION_D} =>
       \A id \in Positioned :
         /\ Reanimated(item[id].x, item'[id].x)
         /\ Reanimated(item[id].y, item'[id].y)
         /\ <<item'[id].x.end, item'[id].y.end>> = TargetOf(id, width', height')]_vars

\* A pass with the restart flag reaches an item half way to its target.
C19_MidAnimation ==
  /\ lastOp.op = "vfunc_size_allocate"
  /\ ~lastOp.threw
  /\ \E id \in Positioned :
       /\ item[id].x.startTime = FrameMillis
       /\ item[id].x.start # item[id].x.end
       /\ frameTime = FrameMillis * 1000

\* The animated scalars of the current items, the old items, the center item
\* and the back button.
AnimatedScalars ==
  UNION {{item[id].x, item[id].y} :
           id \in {i \in ItemIds : (InSeq(i, items) \/ InSeq(i, oldItems) \/ i = centerItem)
                                     /\ item[i].x.def}}
    \cup (IF backButton.x.def THEN {backButton.x, backButton.y} ELSE {})

\* The frame clock called the tick callback lastOp'.arg.
TickStep == lastOp'.op = "tick" /\ frameTime' = frameTime

\* The callback stays registered while an animated scalar is not at its end
\* time yet, and deregisters itself when all are.
RunsUntilFinished ==
  TickStep =>
    IF \A a \in AnimatedScalars : frameTime \div 1000 >= a.endTime
    THEN /\ lastOp'.ret = "false"
         /\ lastOp'.arg \notin tickCallbacks'
         /\ updateTimeout' = -1
    ELSE /\ lastOp'.ret = "true"
         /\ tickCallbacks' = tickCallbacks
         /\ updateTimeout' = updateTimeout

\* C20: the tick callback of a (re)started animation keeps running until the
\* frame time is at or past the end time of every animated scalar of the
\* current items, the old items, the center item and the back button; then
\* it deregisters itself and is not called again: as the frames go by, every
\* registered callback ends up deregistered.
C20_AnimationLoopTerminates ==
  /\ [][RunsUntilFinished]_vars
  /\ (tickCallbacks # {}) ~> (tickCallbacks = {})

\* The callback found an animation that moved an item at its end and
\* deregistered itself.
C20_Witness ==
  /\ lastOp.op = "tick"
  /\ lastOp.ret = "false"
  /\ tickCallbacks = {}
  /\ updateTimeout = -1
  /\ \E a \in AnimatedScalars :
       /\ a.start # a.end
       /\ a.endTime = frameTime \div 1000
       /\ a.startTime = a.endTime - TRANSITION_DURATION

\* |a - b|
Distance(a, b) == IF a >= b THEN a - b ELSE b - a

\* The widget it is shown at the target of its animation.
AtTarget(it) == it.allocation = [x |-> it.x.end, y |-> it.y.end]

\* The current items the last layout pass gave a target.
Targeted == {id \in ItemIds : InSeq(id, items) /\ item[id].x.def}

\* The times (milliseconds) of the frames a run watches.
FrameTimes == {k * FrameMillis : k \in 0..MaxAnimFrames}

\* The widget is shown where its animation is at some frame.
OnItsWay(it) ==
  \E time \in FrameTimes : it.allocation = [x |-> Get(it.x, time), y |-> Get(it.y, time)]

\* The step leaves the animation of item id as it is and does not move the
\* widget, shown on its way, away from its target.
NoOvershoot(id) ==
  item'[id].x = item[id].x /\ item'[id].y = item[id].y /\ OnItsWay(item[id]) =>
    /\ Distance(item'[id].allocation.x, item[id].x.end)
         <= Distance(item[id].allocation.x, item[id].x.end)
    /\ Distance(item'[id].allocation.y, item[id].y.end)
         <= Distance(item[id].allocation.y, item[id].y.end)

\* The last layout pass ran to its end: it consumed the transition and the
\* restart flag.
PassCompleted == ~allocateQueued /\ upcomingTransition = NONE /\ ~restartAnimation

\* C21: once the size and the configuration change no more and the layout
\* pass they asked for is done, every current item ends up shown at the
\* target the last pass computed.
C21_EventuallyAtTarget ==
  <>[](~allocateQueued => \A id \in Targeted : AtTarget(item[id]))

\* C21 after layout passes that ran to their end.
C21_AtTargetAfterCompletePass ==
  <>[](PassCompleted => \A id \in Targeted : AtTarget(item[id]))

\* C21, no overshoot: while a pass that ran to its end is the last one, an
\* item shown on its way to the target does not move away from it.
C21_NeverAwayFromTarget ==
  [][PassCompleted => \A id \in Targeted : InSeq(id, items') => NoOvershoot(id)]_vars

\* ------------------------------------------- claims: levels and positions

\* The conditions of kinds A and B, read off a setItems step.
KindACondition == centerItem = NoItem /\ Nullish(parentAngle') /\ centerItem' # NoItem
KindBCondition == centerItem # NoItem /\ Nullish(parentAngle) /\ centerItem' = NoItem

\* The call descends: the new center config names one of the outgoing items.
Descends ==
  /\ centerItem' # NoItem
  /\ \E i \in 1..Len(items) : SameEntry(item[items[i]].config, item'[centerItem'].config)

\* The call ascends: the outgoing center names one of the new configs.
Ascends ==
  /\ centerItem # NoItem
  /\ \E j \in 1..Len(items') : SameEntry(item'[items'[j]].config, item[centerItem].config)

\* C22: a setItems call that meets neither the condition of kind A nor that
\* of kind B is classified C, with the new parent angle as slide angle, if it
\* descends one level; D, with the slide angle (outgoing parent angle + 180)
\* mod 360, a defined angle in [0, 360), if it ascends one level (and does
\* not descend); E otherwise. Every call chooses exactly one of A..E.
C22_SlideKinds ==
  [][SetItemsStep =>
       /\ upcomingTransition' \in
            {TRANSITION_A, TRANSITION_B, TRANSITION_C, TRANSITION_D, TRANSITION_E}
       /\ ~KindACondition /\ ~KindBCondition =>
            /\ Descends =>
                 upcomingTransition' = TRANSITION_C /\ transitionAngle' = parentAngle'
            /\ Ascends /\ ~Descends =>
                 /\ upcomingTransition' = TRANSITION_D
                 /\ transitionAngle' \in 0..359
                 /\ ~Nullish(parentAngle) => transitionAngle' = (parentAngle + 180) % 360
            /\ ~Descends /\ ~Ascends => upcomingTransition' = TRANSITION_E]_vars

\* C22 for the calls made while the editor has a parent angle.
C22_SlideKindsBelowTopLevel ==
  [][SetItemsStep /\ ~Nullish(parentAngle) /\ ~KindACondition /\ ~KindBCondition =>
       /\ Descends =>
            upcomingTransition' = TRANSITION_C /\ transitionAngle' = parentAngle'
       /\ Ascends /\ ~Descends =>
            /\ upcomingTransition' = TRANSITION_D
            /\ transitionAngle' \in 0..359
            /\ transitionAngle' = (parentAngle + 180) % 360
       /\ ~Descends /\ ~Ascends => upcomingTransition' = TRANSITION_E]_vars

\* The targets (half pixels) of a list of configs shown in the overview of an
\* area of w x h: a centered grid, filled row by row.
OverviewPositions(n, w, h) ==
  LET columns == IF CeilDiv(n, w \div ItemSizeOf(GRID)) = 1 THEN n ELSE w \div ItemSizeOf(GRID)
      rows == CeilDiv(n, w \div ItemSizeOf(GRID))
  IN  [i \in 1..n |->
        <<(w - columns * ItemSizeOf(GRID)) + 2 * ((i - 1) % columns) * ItemSizeOf(GRID),
          (h - rows * ItemSizeOf(GRID)) + 2 * ((i - 1) \div columns) * ItemSizeOf(GRID)>>]

\* The targets of a list of configs shown around a center, below a parent at
\* parentAngleArg, in an area of w x h.
MenuPositions(configs, parentAngleArg, w, h) ==
  LET angles == UtilsComputeItemAngles([i \in 1..Len(configs) |-> FixedAngleOf(configs[i])],
                                       parentAngleArg)
  IN  [i \in 1..Len(configs) |->
        <<RadialX2(w, angles[i], ItemSizeOf(CHILD)), RadialY2(h, angles[i], ItemSizeOf(CHILD))>>]

\* The targets a call of setItems with these arguments leads to in an area of
\* w x h: those of the items, of the center item (none in the overview) and
\* of the back button.
PositionsOf(configs, centerConfig, parentAngleArg, w, h) ==
  [items |-> IF centerConfig = NoConfig THEN OverviewPositions(Len(configs), w, h)
             ELSE MenuPositions(configs, parentAngleArg, w, h),
   center |-> IF centerConfig = NoConfig THEN <<>>
              ELSE <<CenterX2(w, ItemSizeOf(CENTER)), CenterY2(h, ItemSizeOf(CENTER))>>,
   back |-> IF Nullish(parentAngleArg)
            THEN <<CenterX2(w, ItemSizeOf(CHILD)), CenterY2(h, ItemSizeOf(CHILD))>>
            ELSE <<RadialX2(w, parentAngleArg, ItemSizeOf(CHILD)),
                   RadialY2(h, parentAngleArg, ItemSizeOf(CHILD))>>]

\* The end of the animation of a widget.
TargetAt(it) == <<it.x.end, it.y.end>>

\* The targets the widgets have.
Positions ==
  [items |-> [i \in 1..Len(items) |-> TargetAt(item[items[i]])],
   center |-> IF centerItem = NoItem THEN <<>> ELSE TargetAt(item[centerItem]),
   back |-> TargetAt(backButton)]

\* The arguments of the last setItems call, as the editor keeps them.
ShownConfigs == [i \in 1..Len(items) |-> item[items[i]].config]
ShownCenter == IF centerItem = NoItem THEN NoConfig ELSE item[centerItem].config

\* C23: the targets of the items, of the center item and of the back button
\* after the layout pass of a setItems call are given by the arguments of the
\* call and the size of the widget alone, so that the same call made twice
\* at the same size leads to the same targets twice, whatever the transitions
\* are.
C23_SameCallSameTargets ==
  lastOp.op = "vfunc_size_allocate" /\ dragIndex = null /\ Nullish(dropIndex) =>
    Positions = PositionsOf(ShownConfigs, ShownCenter, parentAngle, width, height)

\* Two items around the hub were set twice: after the second pass they have
\* the targets the superseded ones had.
C23_Witness ==
  /\ lastOp.op = "vfunc_size_allocate"
  /\ calls = 2
  /\ passes = 2
  /\ Len(items) = 2
  /\ Len(oldItems) = 3
  /\ centerItem # NoItem
  /\ ~Nullish(parentAngle)
  /\ SameEntry(item[oldItems[3]].config, item[centerItem].config)
  /\ TargetAt(item[oldItems[3]]) = TargetAt(item[centerItem])
  /\ \A i \in 1..2 :
       /\ item[oldItems[i]].config = item[items[i]].config
       /\ item[oldItems[i]].x.def
       /\ TargetAt(item[oldItems[i]]) = TargetAt(item[items[i]])

\* ---------------------------------------------- claims: the free radial menu

\* A menu is shown whose items are all free: none has a fixed angle, there
\* is no parent angle, no drag and no pending insertion.
FreeRadialMenu ==
  /\ ~InMenuOverviewMode
  /\ Len(items) > 0
  /\ dragIndex = null
  /\ Nullish(dropIndex)
  /\ Nullish(parentAngle)
  /\ \A i \in 1..Len(items) : ~(item[items[i]].config.angle >= 0)

\* The targets of the items are the places of the angles on the circle.
PlacedAt(angles) ==
  \A i \in 1..Len(items) :
    TargetAt(item[items[i]])
      = <<RadialX2(width, angles[i], ItemSizeOf(item[items[i]].state)),
          RadialY2(height, angles[i], ItemSizeOf(item[items[i]].state))>>

\* C24: in a radial menu of N items without fixed angles, parent angle, drag
\* and pending insertion the layout uses N angles that are exactly 360/N
\* degrees apart, one per item in the order of the list.
C24_FreeItemsEvenlySpread ==
  FreeRadialMenu =>
    LET N == Len(items)
        angles == ComputeItemAngles(dropIndex)
    IN  /\ Len(angles) = N
        /\ N * (360 \div N) = 360
        /\ \A i \in 1..N :
             /\ angles[i] \in 0..359
             /\ angles[i] = angles[1] + (i - 1) * (360 \div N)
        /\ lastOp.op = "vfunc_size_allocate" /\ ~lastOp.threw => PlacedAt(angles)

\* Six free items were laid out around the hub, 60 degrees apart.
C24_Witness ==
  /\ FreeRadialMenu
  /\ lastOp.op = "vfunc_size_allocate"
  /\ ~lastOp.threw
  /\ Len(items) = 6
  /\ ComputeItemAngles(dropIndex) = <<0, 60, 120, 180, 240, 300>>
  /\ PlacedAt(<<0, 60, 120, 180, 240, 300>>)

\* ------------------------------------------ claims: the end of a drag, clicks

\* A step that is the 'drag-end' of a drag whose data was moved away.
DeletingDragEndStep ==
  /\ dragSource.item # NoItem
  /\ dragSource'.item = NoItem
  /\ lastOp'.op = "drag-end"
  /\ lastOp'.ret = "true"

\* The step takes exactly the dragged item out of the list and reports the
\* index it had.
RemovesDragged ==
  LET d == dragSource.item
  IN  /\ IndexOf(items, d) \in 0..(Len(items) - 1)
      /\ items' = SelectSeq(items, LAMBDA i : i # d)
      /\ Len(items') = Len(items) - 1
      /\ emitted' = <<Signal("remove", IndexOf(items, d))>>

\* C25: a 'drag-end' with deleteData set removes exactly the dragged item
\* from the item list and emits 'remove' with the index, in 0..n-1, the item
\* had right before, also when add() or setItems() ran since 'drag-begin'.
C25_DragEndRemovesDragged == [][DeletingDragEndStep => RemovesDragged]_vars

\* The same while the dragged item is still in the list, whatever add() and
\* remove() did to the list since 'drag-begin'.
C25_DragEndOfListedItem ==
  [][DeletingDragEndStep /\ InSeq(dragSource.item, items) => RemovesDragged]_vars

\* A step that is a click on the button of the usable item i.
ClickStep(i) ==
  /\ Mapped
  /\ Operable(i)
  /\ lastOp'.op = "clicked"
  /\ lastOp'.arg = i

\* C26: a click that makes the button of an item active emits 'select'
\* exactly once, with the index the item has in the item list at that time,
\* whatever add and remove did to the list before, and with -1 if the item
\* is the center item; the item becomes the selected item.
C26_ClickSelects ==
  [][\A i \in ItemIds :
       ClickStep(i) /\ item'[i].active =>
         /\ Len(emitted') = 1
         /\ emitted'[1].sig = "select"
         /\ IF i = centerItem
            THEN emitted'[1].index = -1
            ELSE /\ emitted'[1].index \in 0..(Len(items) - 1)
                 /\ items[emitted'[1].index + 1] = i
         /\ selectedItem' = i]_vars

\* The third item of the list was clicked after an item had been added in
\* front of it: 'select' carried the index 2.
C26_Witness ==
  /\ lastOp.op = "clicked"
  /\ Len(items) = 3
  /\ lastOp.arg = items[3]
  /\ items[1] > items[3]
  /\ emitted = <<Signal("select", 2)>>
  /\ selectedItem = items[3]
  /\ item[items[3]].active

\* A step that is a call of add(config, where).
AddStep == lastOp'.op = "add" /\ calls' = calls + 1

\* C27: add(config, where) with 0 <= where <= n puts exactly one new item
\* at index where and keeps the other n items in their order; the new item
\* is in state GRID in the overview and CHILD otherwise and is the selected
\* item; a layout pass is requested only if no drag is going on.
C27_AddInsertsAndSelects ==
  [][AddStep /\ lastOp'.arg \in 0..Len(items) =>
       LET where == lastOp'.arg
           new == items'[where + 1]
       IN  /\ Len(items') = Len(items) + 1
           /\ ~InSeq(new, items)
           /\ new # centerItem
           /\ SelectSeq(items', LAMBDA j : j # new) = items
           /\ item'[new].state = IF centerItem = NoItem THEN GRID ELSE CHILD
           /\ item'[new].parent
           /\ selectedItem' = new
           /\ \A j \in ItemIds : item'[j].active <=> j = new
           /\ IF Nullish(dragIndex)
              THEN allocateQueued' /\ restartAnimation'
              ELSE UNCHANGED <<allocateQueued, restartAnimation>>
           /\ dragSource.item # NoItem => UNCHANGED <<allocateQueued, restartAnimation>>]_vars

\* An item was added between the two items of a menu while the first one is
\* dragged.
C27_Witness ==
  /\ lastOp.op = "add"
  /\ lastOp.arg = 1
  /\ Len(items) = 3
  /\ centerItem # NoItem
  /\ dragSource.item = items[1]
  /\ dragIndex = 0
  /\ selectedItem = items[2]
  /\ item[items[2]].state = CHILD
  /\ item[items[2]].active

\* ------------------------------------------ claims: selecting a shortcut

\* A step in which a handler of the shortcut widget runs while the row is
\* selected: a key press, a mouse press or the focus leaving.
SelectingKeyStep(keyval) ==
  /\ listBoxRow.selected
  /\ shortcutOp'.op = "key-pressed"
  /\ shortcutOp'.keyval = keyval
SelectingCancelStep ==
  /\ listBoxRow.selected
  /\ \/ shortcutOp'.op \in {"pressed", "leave"}
     \/ shortcutOp'.op = "key-pressed" /\ shortcutOp'.keyval = "Escape"

\* The keys with the modifiers that make an accelerator, and its name.
Accelerators ==
  {<<"a", "", "a">>, <<"a", "<Control>", "<Control>a">>, <<"Tab", "<Control>", "<Control>Tab">>}

\* C28: while a shortcut is selected, Escape, a mouse press and the focus
\* leaving put the accelerator back that was shown when the selection began
\* and do not call onSelect; BackSpace shows no accelerator and calls
\* onSelect('') once; a valid accelerator calls onSelect once with its name;
\* each of them unselects the row, and key presses on an unselected row are
\* not handled and change nothing, until the row is activated again.
C28_ShortcutSelectionEnds ==
  [][/\ SelectingCancelStep =>
          /\ label'.accelerator = shownBefore
          /\ onSelectCalls' = onSelectCalls
          /\ ~listBoxRow'.selected
     /\ SelectingKeyStep("BackSpace") =>
          /\ label'.accelerator = ""
          /\ onSelectCalls' = Append(onSelectCalls, "")
          /\ ~listBoxRow'.selected
     /\ \A a \in Accelerators :
          SelectingKeyStep(a[1]) /\ shortcutOp'.mods = a[2] =>
            /\ onSelectCalls' = Append(onSelectCalls, a[3])
            /\ ~listBoxRow'.selected
     /\ ~listBoxRow.selected /\ shortcutOp'.op # "row-activated" =>
          /\ ~listBoxRow'.selected
          /\ onSelectCalls' = onSelectCalls
          /\ shortcutOp'.op = "key-pressed" =>
               ~shortcutOp'.ret /\ UNCHANGED <<label, lastAccelerator, shortcutsInhibited>>]_vars

\* A selection was ended by Escape: the label shows the accelerator of its
\* owner again, and onSelect was not called.
C28_Witness ==
  /\ shortcutOp = ShortcutOp("key-pressed", "Escape", "", TRUE)
  /\ ~listBoxRow.selected
  /\ shownBefore = "<Control>b"
  /\ label = [accelerator |-> "<Control>b", disabled_text |-> NOT_BOUND]
  /\ onSelectCalls = <<>>

\* ------------------------------------- claims: making room, old items

\* The last step was a pass that laid out the overview while a drop was
\* pending.
PassWithPendingDrop ==
  /\ lastOp.op = "vfunc_size_allocate"
  /\ ~lastOp.threw
  /\ InMenuOverviewMode
  /\ ~Nullish(dropRow)
  /\ ~Nullish(dropColumn)

\* The offset (pixels) of the target of the item at index i from the left
\* edge of its cell, and the row and the column of the cell.
CellColumn(i) == i % columnCount
CellRow(i) == i \div columnCount
OffsetInCell(i) ==
  (item[items[i + 1]].x.end - gridOffsetX2) \div 2 - CellColumn(i) * ItemSizeOf(GRID)

\* C29: after a pass in the overview with a pending drop at row r, column
\* c, only items of row r are displaced horizontally: the item in column
\* c - k is shifted left by (4 - k) * 15 pixels for k = 1..3, the item in
\* column c + k right by (3 - k) * 15 pixels for k = 0..2, further items
\* not at all, so at most 3 items on each side; the vertical targets are
\* those of the cells, and the items of other rows are not displaced.
C29_RoomForTheDrop ==
  PassWithPendingDrop =>
    /\ \A i \in 0..(Len(items) - 1) :
         /\ item[items[i + 1]].y.end = gridOffsetY2 + 2 * CellRow(i) * ItemSizeOf(GRID)
         /\ (item[items[i + 1]].x.end - gridOffsetX2) % 2 = 0
         /\ CellRow(i) # dropRow => OffsetInCell(i) = 0
         /\ CellRow(i) = dropRow =>
              \/ \E k \in 1..3 : CellColumn(i) = dropColumn - k /\ OffsetInCell(i) = -((4 - k) * 15)
              \/ \E k \in 0..2 : CellColumn(i) = dropColumn + k /\ OffsetInCell(i) = (3 - k) * 15
              \/ /\ CellColumn(i) <= dropColumn - 4 \/ CellColumn(i) >= dropColumn + 3
                 /\ OffsetInCell(i) = 0
    /\ Cardinality({i \in 0..(Len(items) - 1) : OffsetInCell(i) < 0}) <= 3
    /\ Cardinality({i \in 0..(Len(items) - 1) : OffsetInCell(i) > 0}) <= 3

\* Six menus in one row, the drop pending before the fifth: the first menu
\* stays, the next three make room to the left, the last two to the right.
C29_Witness ==
  /\ PassWithPendingDrop
  /\ Len(items) = 6
  /\ columnCount = 6
  /\ dropRow = 0
  /\ dropColumn = 4
  /\ [i \in 0..5 |-> OffsetInCell(i)] = [i \in 0..5 |-> <<0, -15, -30, -45, 45, 30>>[i + 1]]

\* A pass that consumes the pending transition of the given kind.
Consumes(kind) == LayoutStep /\ upcomingTransition = kind /\ ~lastOp'.threw

\* The pass changes the animation of the k-th old item.
OldItemMoved(k) ==
  \/ item'[oldItems[k]].x # item[oldItems[k]].x
  \/ item'[oldItems[k]].y # item[oldItems[k]].y

\* The old items that show the same entry as the widget `other`.
OldMatches(other) ==
  {k \in 1..Len(oldItems) : SameEntry(item[oldItems[k]].config, item[other].config)}

\* The outgoing grid items that show the entry of the center item: the
\* overview was superseded last, so they are at the end of the old items.
OutgoingGridMatches ==
  {k \in OldMatches(centerItem) : \A j \in k..Len(oldItems) : item[oldItems[j]].state = GRID}

\* The last of a non-empty set of positions.
LastOf(S) == CHOOSE k \in S : \A j \in S : j <= k

\* Kind A: the outgoing grid item that shows the entry of the new center
\* item moves to the center of the widget, and no other old item moves.
GridItemToCenter ==
  /\ \A k \in 1..Len(oldItems) :
       OldItemMoved(k) => OutgoingGridMatches # {} /\ k = LastOf(OutgoingGridMatches)
  /\ OutgoingGridMatches # {} =>
       TargetAt(item'[oldItems[LastOf(OutgoingGridMatches)]])
         = <<CenterX2(width', ItemSizeOf(GRID)), CenterY2(height', ItemSizeOf(GRID))>>

\* Kind B: the outgoing center item, the last of the old items, moves to the
\* target of the selected item if it shows its entry, and no other old item
\* moves.
CenterToGridItem ==
  /\ \A k \in 1..Len(oldItems) :
       OldItemMoved(k) => k = Len(oldItems) /\ item[oldItems[k]].state = CENTER
  /\ Len(oldItems) \in OldMatches(selectedItem) /\ item[oldItems[Len(oldItems)]].state = CENTER =>
       TargetAt(item'[oldItems[Len(oldItems)]]) = TargetAt(item'[selectedItem])

\* C30: the pass that consumes kind A moves the outgoing grid item that
\* corresponds to the new center item to the center of the widget, the pass
\* that consumes kind B moves the outgoing center item to the grid target of
\* the newly selected item, and neither changes the target of another
\* outgoing item.
C30_OutgoingItemFollows ==
  [][/\ Consumes(TRANSITION_A) => GridItemToCenter
     /\ Consumes(TRANSITION_B) => CenterToGridItem]_vars

\* The same for the passes in which a single old item shows the entry of
\* the new center item (A) or of the selected item (B).
C30_SingleCorrespondingItem ==
  [][/\ Consumes(TRANSITION_A) /\ Cardinality(OldMatches(centerItem)) <= 1 => GridItemToCenter
     /\ Consumes(TRANSITION_B) /\ Cardinality(OldMatches(selectedItem)) <= 1
          => CenterToGridItem]_vars

\* ------------------------------------------ claims: the cursor and the list

\* C31: whenever the dragged index is set, it is an index of the item list
\* and the item at that index is the one that is dragged, whatever drag
\* events, add, remove and setItems calls came before; so a layout pass
\* leaves no item but the dragged one out of the angles.
C31_DragIndexIsDraggedItem ==
  dragIndex # null =>
    /\ dragIndex \in 0..(Len(items) - 1)
    /\ items[dragIndex + 1] = dragSource.item

\* The same right after 'drag-begin'.
C31_DragIndexAtDragBegin ==
  lastOp.op = "drag-begin" =>
    /\ dragIndex \in 0..(Len(items) - 1)
    /\ items[dragIndex + 1] = dragSource.item

\* An accepted drop of external data onto the edited menu.
ExternalDropStep ==
  /\ DropStep
  /\ lastOp'.ret = "true"
  /\ ~InternalDrag
  /\ ~InMenuOverviewMode

\* C32: an external drop of a URI list at the resolved index p of an edited
\* menu emits 'drop-data' once per non-empty line, in line order, the j-th
\* of them (j = 0, 1, ...) with the index p + j, so that the indices are
\* consecutive wherever the empty lines are.
C32_ConsecutiveIndices ==
  [][ExternalDropStep =>
       \A k \in 1..Len(emitted') :
         /\ emitted'[k].sig = "drop-data"
         /\ emitted'[k].index = lastOp'.arg + (k - 1)
         /\ \A j \in 1..(k - 1) : emitted'[j].line < emitted'[k].line]_vars

\* What the handler does: the signal of a line carries p plus the number of
\* the line in the data, the empty lines counted.
C32_IndexByLineNumber ==
  [][ExternalDropStep =>
       \A k \in 1..Len(emitted') :
         /\ emitted'[k].sig = "drop-data"
         /\ emitted'[k].index = lastOp'.arg + emitted'[k].line
         /\ \A j \in 1..(k - 1) : emitted'[j].line < emitted'[k].line]_vars

\* ------------------------------------------ claims: the states of the items

\* The widget with id i is one and the same before and after the step: it
\* stays in the item list, stays the center item, or is an old item after.
SameWidget(i) ==
  \/ InSeq(i, items) /\ InSeq(i, items')
  \/ i = centerItem /\ i = centerItem'
  \/ (InSeq(i, items) \/ InSeq(i, oldItems) \/ i = centerItem) /\ InSeq(i, oldItems')

\* The states of the current items fit the mode.
StatesFitMode ==
  /\ \A k \in 1..Len(items) :
       item[items[k]].state = IF centerItem = NoItem THEN GRID ELSE CHILD
  /\ centerItem # NoItem => item[centerItem].state = CENTER

\* C33: the state of an item is given at its creation and never changes;
\* the members of the item list are all in state GRID while there is no
\* center item and all in state CHILD while there is one, and the center
\* item is in state CENTER.
C33_ItemStates ==
  /\ []StatesFitMode
  /\ [][\A i \in ItemIds : SameWidget(i) => item'[i].state = item[i].state]_vars

\* An item was added to an edited menu whose former items are fading out.
C33_Witness ==
  /\ lastOp.op = "add"
  /\ centerItem # NoItem
  /\ Len(items) = 3
  /\ oldItems # <<>>
  /\ \E k \in 1..Len(oldItems) : item[oldItems[k]].state = GRID
  /\ StatesFitMode

\* ------------------------------------- claims: what the transitions read

\* C34: what a layout pass reads for the pending transition exists: in a
\* pass with kind C or D pending the editor has a center item, and in a pass
\* with kind B pending and old items a selected item exists, whatever
\* setItems calls came before.
C34_TransitionOperandsExist ==
  [][LayoutStep =>
       /\ upcomingTransition \in {TRANSITION_C, TRANSITION_D} => centerItem # NoItem
       /\ upcomingTransition = TRANSITION_B /\ oldItems # <<>> => selectedItem # NoItem]_vars

\* The part that holds: a pass with kind C pending finds a center item.
C34_CenterOfKindC ==
  [][LayoutStep /\ upcomingTransition = TRANSITION_C => centerItem # NoItem]_vars


\* ------------------------------------------- moving an item within a menu

\* Number of setItems calls and of layout passes of a run that moves items.
MaxMoveCalls == 1
MaxMovePasses == 1
\* Number of items the collaborator adds in such a run.
MaxMoves == 1

\* The lists whose items are moved: two or three items around the hub, and
\* the overview of two custom menus. The editor shows the same menu as long
\* as one of its items is dragged.
MoveSetItems ==
  /\ calls < MaxMoveCalls
  /\ dragSource.item = NoItem
  /\ \/ \E configs \in {DragConfigs, SubSeq(Catalog, 2, 4)} :
          SetItems(configs, null, Hub, undefined)
     \/ SetItems(<<Catalog[1], Catalog[3]>>, null, NoConfig, undefined)

MoveSizeAllocate == passes < MaxMovePasses /\ SizeAllocate(MinSize, MinSize)

\* The collaborator has answered the drop of the dragged item: the list
\* holds another item of its configuration.
Answered ==
  \E k \in 1..Len(items) :
    items[k] # dragSource.item /\ item[items[k]].config = item[dragSource.item].config

\* The drop of the dragged item; a drag ends with at most one drop.
MoveDrop == Mapped /\ InternalDrag /\ ~Answered /\ Drop(NoPayload)

\* The collaborator's answer to 'drop-item': it adds the configuration of
\* the dragged item at the index the signal carries.
MoveAdd ==
  /\ calls < MaxMoveCalls + MaxMoves
  /\ lastOp.op = "drop"
  /\ InternalDrag
  /\ emitted # <<>>
  /\ emitted[1].sig = "drop-item"
  /\ Add(item[dragSource.item].config, emitted[1].index)

\* The pointer offsets of a move: above, right of, below and left of the
\* center and in two diagonals.
MoveOffsets == {<<0, -400>>, <<400, 0>>, <<0, 400>>, <<-400, 0>>, <<400, 400>>, <<-400, -400>>}

MoveMotion == Mapped /\ InternalDrag /\ \E d2 \in MoveOffsets : MotionAt(d2[1], d2[2])

\* An item is dragged as long as the collaborator may answer its drop.
MoveDragBegin == calls < MaxMoveCalls + MaxMoves /\ DragDragBegin

NextMove ==
  \/ Realize
  \/ MoveSetItems
  \/ MoveSizeAllocate
  \/ MoveDragBegin
  \/ MoveMotion
  \/ Leave
  \/ MoveDrop
  \/ MoveAdd
  \/ \E deleteData \in BOOLEAN : DragEnd(deleteData)
  \/ DragCancel

SpecMove == Init /\ [][NextMove]_vars

\* ------------------------------------------- claims: a move within a menu

\* The 'drag-end' with deleteData that follows the collaborator's add.
MoveEndStep ==
  /\ lastOp.op = "add"
  /\ lastOp'.op = "drag-end"
  /\ lastOp'.ret = "true"

\* C35: a completed move within one menu (drag-begin of the item at index d,
\* a motion that resolves index p, the drop, the collaborator's add at p and
\* drag-end with deleteData) leaves the number of items as it was, keeps the
\* other items in their order and puts the moved configuration at index p
\* when p <= d and at p - 1 when p > d.
C35_MoveWithinMenu ==
  [][MoveEndStep =>
       LET p == lastOp.arg
           d == dragIndex
           new == selectedItem
           dragged == dragSource.item
           before == SelectSeq(items, LAMBDA i : i # new)
       IN  /\ d \in 0..(Len(before) - 1)
           /\ before[d + 1] = dragged
           /\ Len(items') = Len(before)
           /\ SelectSeq(items', LAMBDA i : i # new)
                = SelectSeq(before, LAMBDA i : i # dragged)
           /\ items'[(IF p <= d THEN p ELSE p - 1) + 1] = new
           /\ item'[new].config = item[dragged].config]_vars

\* The last of three items was moved in front of the others.
C35_MovedToFront ==
  /\ lastOp.op = "drag-end"
  /\ lastOp.ret = "true"
  /\ Len(items) = 3
  /\ centerItem # NoItem
  /\ items[1] = selectedItem
  /\ item[selectedItem].config = Catalog[4]

\* A menu of the overview was moved behind the other one.
C35_MovedInOverview ==
  /\ lastOp.op = "drag-end"
  /\ lastOp.ret = "true"
  /\ centerItem = NoItem
  /\ Len(items) = 2
  /\ items[2] = selectedItem
  /\ item[selectedItem].config = Catalog[1]

\* The first of three items was moved behind the others.
C35_Witness ==
  /\ lastOp.op = "drag-end"
  /\ lastOp.ret = "true"
  /\ Len(items) = 3
  /\ centerItem # NoItem
  /\ selectedItem # NoItem
  /\ items[3] = selectedItem
  /\ item[selectedItem].config = Catalog[2]
  /\ item[items[1]].config = Catalog[3]

\* ----------------------------------------------- one drag after another

\* Number of setItems calls and of layout passes of a run with several drags.
MaxHoverCalls == 1
MaxHoverPasses == 1

\* The editor shows an action and a custom menu around a center item.
HoverSetItems ==
  /\ calls < MaxHoverCalls
  /\ SetItems(DragConfigs, null, Catalog[1], undefined)

HoverSizeAllocate == passes < MaxHoverPasses /\ SizeAllocate(MinSize, MinSize)

\* The pointer of a drag from outside leaves the editor; an item of the
\* editor is dragged within it.
HoverLeave == ~InternalDrag /\ Leave

\* The drop of a drag, also where the last motion resolved no index.
HoverDrop ==
  /\ Mapped
  /\ \E payload \in (IF InternalDrag THEN {NoPayload} ELSE Payloads) :
       Drop(payload) \/ UnresolvedDrop(payload)

NextHover ==
  \/ Realize
  \/ HoverSetItems
  \/ HoverSizeAllocate
  \/ DragDragBegin
  \/ \E deleteData \in BOOLEAN : DragEnd(deleteData)
  \/ DragCancel
  \/ DragMotion
  \/ HoverLeave
  \/ HoverDrop

SpecHover == Init /\ [][NextHover]_vars

\* ------------------------------------- claims: the index a drop commits

\* The last motion resolved an insertion index.
ResolvedHere == dropStatus \in {"accept", "left"}

\* C36: the drop of a dragged item of the editor is not committed at an
\* insertion index remembered from an earlier drag: the index 'drop-item'
\* carries is the one the drag's last motion resolved, and a drop where the
\* drag resolved no index returns false without a drop signal.
C36_NoIndexOfEarlierDrag ==
  [][DropStep /\ InternalDrag =>
       IF ResolvedHere
       THEN \A k \in 1..Len(emitted') :
              emitted'[k].sig = "drop-item" => emitted'[k].index = motionIndex
       ELSE /\ lastOp'.ret = "false"
            /\ \A k \in 1..Len(emitted') :
                 emitted'[k].sig \notin {"drop-item", "drop-data"}]_vars

\* The part that holds: a drop that follows a motion that resolved an index
\* carries that index, whatever earlier drags left behind.
C36_IndexOfLastMotion ==
  [][DropStep /\ ResolvedHere =>
       /\ ~Nullish(motionIndex)
       /\ \A k \in 1..Len(emitted') :
            emitted'[k].sig \in {"drop-item", "drop-data"}
              => lastOp'.arg = motionIndex]_vars

\* ------------------------------------ claims: the callback of the animation

\* The registered callbacks are the one the editor remembers, if any.
OneCallback ==
  /\ Cardinality(tickCallbacks) <= 1
  /\ tickCallbacks = IF updateTimeout >= 0 THEN {updateTimeout} ELSE {}

\* A pass that restarts the animation while a callback is registered.
RestartingPass ==
  /\ LayoutStep
  /\ ~lastOp'.threw
  /\ restartAnimation
  /\ tickCallbacks # {}

\* C37: at most one frame callback of the animation is registered at any
\* time, and it is the one the editor remembers: a pass with the restart
\* flag removes the callback that is still registered before it registers
\* the new one, and a callback that returns false has marked itself as not
\* registered.
C37_SingleCallback ==
  /\ []OneCallback
  /\ [][RestartingPass => tickCallbacks' = {updateTimeout'} /\ updateTimeout' >= 0]_vars
  /\ [][TickStep /\ lastOp'.ret = "false" => tickCallbacks' = {} /\ updateTimeout' = -1]_vars

\* The second pass restarted the animation of the first one, whose callback
\* had not been called yet, and left one callback registered.
C37_Witness ==
  /\ lastOp.op = "vfunc_size_allocate"
  /\ ~lastOp.threw
  /\ passes = 2
  /\ frameTime = 0
  /\ items # <<>>
  /\ item[items[1]].x.def
  /\ item[items[1]].x.start # item[items[1]].x.end
  /\ tickCallbacks = {updateTimeout}

\* ------------------------------------------------ claims: the old items

\* C38: every old item is insensitive and not revealed, and no item is both
\* an old item and an item of the current list, also when setItems is called
\* between drag-begin and drag-end.
C38_OldItemsHidden ==
  /\ \A k \in 1..Len(oldItems) :
       ~item[oldItems[k]].sensitive /\ ~item[oldItems[k]].reveal_child
  /\ \A k \in 1..Len(oldItems) : ~InSeq(oldItems[k], items)

\* The part that holds: the old items are not revealed and none of them is
\* in the current list.
C38_OldItemsFadeOut ==
  /\ \A k \in 1..Len(oldItems) : ~item[oldItems[k]].reveal_child
  /\ \A k \in 1..Len(oldItems) : ~InSeq(oldItems[k], items)

\* ------------------------------------------------- the achievements page

\* Number of achievements of the tracker, the range of their progress, the
\* latest date and the number of signals of a run.
MaxAchievements == 2
MaxProgress == 1
MaxDate == 2
MaxSignals == 3

\* AchievementState
AchievementStates == {"LOCKED", "ACTIVE", "COMPLETED"}

\* What getAchievements() of the tracker returns: the state and the progress
\* of each achievement; the date is the one of the settings or the current
\* one.
Achievements ==
  [1..MaxAchievements ->
     [state : AchievementStates, progress : 0..MaxProgress, date : 0..(MaxDate - 1)]]

\* The date of a page that has just been created is not before the dates of
\* its widgets.
LatestDate ==
  CHOOSE d \in 0..MaxDate :
    /\ \A id \in AchievementIds : completedAchievements[id].date <= d
    /\ \E id \in AchievementIds : completedAchievements[id].date = d

PageCreate == \E achievements \in Achievements : AchievementsPage(achievements)

PageProgress ==
  /\ achievementOp.signals < MaxSignals
  /\ \E id \in AchievementIds, cur \in 0..MaxProgress : UpdateProgress(id, cur)

PageUnlocked ==
  /\ achievementOp.signals < MaxSignals
  /\ \E id \in AchievementIds : AchievementUnlocked(id)

PageLocked ==
  /\ achievementOp.signals < MaxSignals
  /\ \E id \in AchievementIds : AchievementLocked(id)

\* The clock has gone on since the latest date or not.
PageCompleted ==
  /\ activeAchievements # <<>>
  /\ achievementOp.signals < MaxSignals
  /\ \E id \in AchievementIds, newDate \in {LatestDate, Min(LatestDate + 1, MaxDate)} :
       AchievementCompleted(id, newDate)

NextAchievements ==
  \/ PageCreate
  \/ PageProgress
  \/ PageUnlocked
  \/ PageLocked
  \/ PageCompleted

SpecAchievements == Init /\ [][NextAchievements]_vars

\* ------------------------------------- claims: the achievements page

\* No achievement shows both of its widgets.
AtMostOneRevealed ==
  \A id \in AchievementIds :
    ~(activeAchievements[id].reveal_child /\ completedAchievements[id].reveal_child)

\* The page handles the signal name of the tracker for the achievement id.
SignalStep(name, id) ==
  /\ achievementOp'.signals = achievementOp.signals + 1
  /\ achievementOp'.op = name
  /\ achievementOp'.id = id

\* C39: on the achievements page at most one of the two widgets of an
\* achievement (in progress, completed) is revealed, whatever signals the
\* tracker has sent: 'achievement-unlocked' reveals the one in progress only,
\* 'achievement-completed' the completed one only, 'achievement-locked'
\* hides both.
C39_OneWidgetRevealed ==
  /\ []AtMostOneRevealed
  /\ [][\A id \in AchievementIds :
          /\ SignalStep("achievement-unlocked", id)
               => /\ activeAchievements'[id].reveal_child
                  /\ ~completedAchievements'[id].reveal_child
          /\ SignalStep("achievement-completed", id)
               => /\ ~activeAchievements'[id].reveal_child
                  /\ completedAchievements'[id].reveal_child
          /\ SignalStep("achievement-locked", id)
               => /\ ~activeAchievements'[id].reveal_child
                  /\ ~completedAchievements'[id].reveal_child]_vars

\* An achievement that was completed has been unlocked again and shows its
\* widget in progress only, while the other one is completed.
C39_Witness ==
  /\ achievementOp.op = "achievement-unlocked"
  /\ achievementOp.signals = MaxSignals
  /\ achievementOp.id = 1
  /\ activeAchievements[1].reveal_child
  /\ ~completedAchievements[1].reveal_child
  /\ completedAchievements[1].date > 0
  /\ completedAchievements[2].reveal_child

=============================================================================
